---- MODULE Spec2Model ----
(***************************************************************************)
(* Model of the SOAP proxy handler of UNO-SOFT/soap-proxy (the soapHandler *)
(* version): serveHTTP -> DecodeRequest -> Call -> encodeResponse, with    *)
(* the fault mapper (soapError / encodeSoapFault) and the spill buffers of *)
(* the merge encoder (sliceSaver).                                         *)
(***************************************************************************)
EXTENDS Integers, Sequences, FiniteSets, TLC

\* ---------------------------------------------------------------- bounds
\* at most this many messages are returned by Recv on one stream
MaxMsgs == 3
\* at most this many elements in one repeatable field of one message
MaxElems == 2

\* ------------------------------------------------------------- constants
StatusOK == 200
StatusBadRequest == 400
StatusUnauthorized == 401
StatusFailedDependency == 424
StatusInternalServerError == 500
StatusGatewayTimeout == 504

\* --------------------------------------------------------------- errors
\* An error value is described by what the handler can observe of it:
\*   code     the value of a Code() int method found by errors.As (0: none)
\*   canceled errors.Is(err, context.Canceled)
\*   deadline errors.Is(err, context.DeadlineExceeded)
\*   eof      errors.Is(err, io.EOF)
\*   grpc     status.Convert(errors.Unwrap(err)).Code()
\*   badUser  status.Convert(errors.Unwrap(err)).Message() is
\*            "bad username or password"
\*   decode   errors.Is(err, errDecode)
MkErr(nm, code, canceled, deadline, eof, grpc, badUser, decode) ==
    [nil |-> FALSE, name |-> nm, code |-> code, canceled |-> canceled,
     deadline |-> deadline, eof |-> eof, grpc |-> grpc, badUser |-> badUser,
     decode |-> decode]

NoErr == [nil |-> TRUE, name |-> "nil", code |-> 0, canceled |-> FALSE,
          deadline |-> FALSE, eof |-> FALSE, grpc |-> "OK", badUser |-> FALSE,
          decode |-> FALSE]

ErrPlain      == MkErr("plain", 0, FALSE, FALSE, FALSE, "OK", FALSE, FALSE)
ErrEOF        == MkErr("EOF", 0, FALSE, FALSE, TRUE, "OK", FALSE, FALSE)
ErrCode404    == MkErr("code404", 404, FALSE, FALSE, FALSE, "OK", FALSE, FALSE)
ErrCode503    == MkErr("code503", 503, FALSE, FALSE, FALSE, "Unknown", FALSE, FALSE)
ErrCode7      == MkErr("code7", 7, FALSE, FALSE, FALSE, "OK", FALSE, FALSE)
ErrCanceled   == MkErr("canceled", 0, TRUE, FALSE, FALSE, "Unknown", FALSE, FALSE)
ErrDeadline   == MkErr("deadline", 0, FALSE, TRUE, FALSE, "Unknown", FALSE, FALSE)
ErrBothCtx    == MkErr("canceled+deadline", 0, TRUE, TRUE, FALSE, "Unknown", FALSE, FALSE)
ErrCodeCancel == MkErr("code404+canceled", 404, TRUE, FALSE, FALSE, "Unknown", FALSE, FALSE)
ErrCodeDeadl  == MkErr("code503+deadline", 503, FALSE, TRUE, FALSE, "Unknown", FALSE, FALSE)
\* fmt.Errorf("...: %w", status.Error(codes.PermissionDenied, ...))
ErrPermDenied == MkErr("wrapped PermissionDenied", 0, FALSE, FALSE, FALSE, "PermissionDenied", FALSE, FALSE)
ErrPerm7      == MkErr("wrapped PermissionDenied+code7", 7, FALSE, FALSE, FALSE, "PermissionDenied", FALSE, FALSE)
ErrUnauth     == MkErr("wrapped Unauthenticated", 0, FALSE, FALSE, FALSE, "Unauthenticated", FALSE, FALSE)
ErrBadUser    == MkErr("wrapped bad username or password", 0, FALSE, FALSE, FALSE, "Unknown", TRUE, FALSE)
\* fmt.Errorf("into %T: %v\n%s: %w", inp, err, b, errDecode)
ErrDecode     == MkErr("decode XML", 0, FALSE, FALSE, FALSE, "Unknown", FALSE, TRUE)

\* the other errors DecodeRequest returns
ErrSection      == MkErr("MakeSectionReader", 0, FALSE, FALSE, FALSE, "OK", FALSE, FALSE)
ErrFindBody     == MkErr("findSoapBody", 0, FALSE, FALSE, FALSE, "Unknown", FALSE, FALSE)
ErrDecodeHeader == MkErr("decodeHeader", 0, FALSE, FALSE, FALSE, "Unknown", FALSE, FALSE)
ErrSkip         == MkErr("skip", 0, FALSE, FALSE, FALSE, "Unknown", FALSE, FALSE)
ErrNextStart    == MkErr("nextStart", 0, FALSE, FALSE, FALSE, "Unknown", FALSE, FALSE)
ErrHook         == MkErr("DecodeInput", 0, FALSE, FALSE, FALSE, "Unknown", FALSE, FALSE)
ErrNotFound     == MkErr("not found", 0, FALSE, FALSE, FALSE, "Unknown", FALSE, FALSE)

\* the errors a backend Call is made to return
CallErrs == {ErrPlain, ErrCode404, ErrCode503, ErrCode7, ErrCanceled,
             ErrDeadline, ErrBothCtx, ErrCodeCancel, ErrCodeDeadl,
             ErrPermDenied, ErrPerm7, ErrUnauth, ErrBadUser}
\* the errors Recv is made to return
RecvErrs == {ErrEOF, ErrPlain, ErrCode404}

\* ------------------------------------------------- http.ResponseWriter
\* What is written to the response is a sequence of items.
Item(k, m, f, i) == [k |-> k, m |-> m, f |-> f, i |-> i]
Tag(k) == Item(k, 0, "", 0)

\* w.status = 0: no status line decided yet.  lazyHdr: the writer handed
\* to serveHTTP holds back the status line until the handler returns (the
\* gzhttp wrapper of ServeHTTP while it buffers less than its minimum
\* size) and keeps the first code it is given; otherwise the first Write
\* commits 200 and a later WriteHeader is ignored, as net/http does.
\* w.panic: a code outside 100..999 reached net/http's WriteHeader, which
\* panics: the server aborts the response.
\* w.hdr: the codes WriteHeader was called with, in call order.
NewWriter == [status |-> 0, body |-> <<>>, panic |-> FALSE, hdr |-> <<>>]

ValidStatus(code) == code >= 100 /\ code <= 999

WriteHeader(w, lazyHdr, code) ==
    IF w.panic THEN w
    ELSE IF w.status # 0 THEN [w EXCEPT !.hdr = Append(@, code)]
    ELSE IF ValidStatus(code) \/ lazyHdr
         THEN [w EXCEPT !.hdr = Append(@, code), !.status = code]
         ELSE [w EXCEPT !.hdr = Append(@, code), !.panic = TRUE]

Write(w, lazyHdr, items) ==
    IF w.panic THEN w
    ELSE [w EXCEPT !.body = @ \o items,
                   !.status = IF @ = 0 /\ ~lazyHdr THEN StatusOK ELSE @]

\* the handler has returned: the status line still held back is sent
Finish(w) ==
    IF w.panic THEN w
    ELSE IF w.status = 0 THEN [w EXCEPT !.status = StatusOK]
    ELSE IF ValidStatus(w.status) THEN w
    ELSE [w EXCEPT !.panic = TRUE]

\* ----------------------------------------------------------- fault mapper
\* FaultStatus with the context errors tested before the Code() capability
FaultStatusCtxFirst(err) ==
    IF err.canceled THEN StatusFailedDependency
    ELSE IF err.deadline THEN StatusGatewayTimeout
    ELSE IF err.code # 0 THEN err.code
    ELSE StatusInternalServerError

\* the status encodeSoapFault passes to WriteHeader
FaultStatus(err) ==
    IF err.code # 0 THEN err.code
    ELSE IF err.canceled THEN StatusFailedDependency
    ELSE IF err.deadline THEN StatusGatewayTimeout
    ELSE StatusInternalServerError

\* The fault code an error supplies through FaultCode(): colon says whether
\* it holds a ":", tail is what follows the last one.  NoFaultCode: the
\* error has no FaultCode method, as the errors above.
NoFaultCode == [colon |-> FALSE, tail |-> ""]
SuppliedFaultCode(err) == NoFaultCode

\* the supplied fault code is kept
ValidFaultCode(c) ==
    c.colon /\ c.tail \in {"VersionMismatch", "MustUnderstand", "Client", "Server"}

\* the faultcode of the Fault element encodeSoapFault writes for err
FaultCodeOf(err) ==
    IF ValidFaultCode(SuppliedFaultCode(err)) THEN SuppliedFaultCode(err).tail
    ELSE IF FaultStatus(err) < StatusInternalServerError THEN "Client"
    ELSE "Server"

FaultItem(err) == Item("Fault", 0, err.name, 0)

\* encodeSoapFault writing the whole envelope whatever justInner says
encodeSoapFaultFull(w, lazyHdr, err, justInner) ==
    Write(WriteHeader(w, lazyHdr, FaultStatus(err)), lazyHdr,
          <<Tag("EnvHeader"), Tag("BodyOpen"), FaultItem(err), Tag("Footer")>>)

encodeSoapFault(w, lazyHdr, err, justInner) ==
    LET buf == IF justInner THEN <<FaultItem(err)>>
               ELSE <<Tag("EnvHeader"), Tag("BodyOpen"), FaultItem(err), Tag("Footer")>>
    IN  Write(WriteHeader(w, lazyHdr, FaultStatus(err)), lazyHdr, buf)

\* soapError's own status: 401 for an unwrapped cause that is a gRPC
\* PermissionDenied / Unauthenticated status or says "bad username or
\* password"
Unauthorized(err) ==
    \/ err.grpc \in {"PermissionDenied", "Unauthenticated"}
    \/ err.grpc = "Unknown" /\ err.badUser

\* soapError without the 401 cases
soapErrorNo401(w, lazyHdr, err) == encodeSoapFault(w, lazyHdr, err, FALSE)

soapError(w, lazyHdr, err) ==
    LET w1 == IF Unauthorized(err)
              THEN WriteHeader(w, lazyHdr, StatusUnauthorized)
              ELSE w
    IN  encodeSoapFault(w1, lazyHdr, err, FALSE)

\* http.Error answering with a Fault element instead of the error text
httpErrorFault(w, lazyHdr, code) ==
    Write(WriteHeader(w, lazyHdr, code), lazyHdr, <<Item("Fault", 0, "text", 0)>>)

\* http.Error(w, err.Error(), http.StatusBadRequest)
httpError(w, lazyHdr, code) ==
    Write(WriteHeader(w, lazyHdr, code), lazyHdr, <<Tag("Text")>>)

\* ------------------------------------------------------------ the handler
\* An action name is the sequence of its "/"-separated segments; <<>> is
\* the empty string.
ProtoSegs == {"x.proto"}

ZeroAnnotation == [Raw |-> FALSE, RemoveNS |-> FALSE]

\* soapHandler after NewSOAPHandler: the configured hooks, the input types
\* the Client knows and the annotation store.
MkHandler(decodeHeader, decodeInput, encodeOutput) ==
    [DecodeHeader |-> decodeHeader, DecodeInput |-> decodeInput,
     EncodeOutput |-> encodeOutput,
     inputs |-> {<<"Login">>, <<"RawOp">>},
     annotations |-> (<<"RawOp">> :> [Raw |-> TRUE, RemoveNS |-> FALSE])
                     @@ (<<"RawGone">> :> [Raw |-> TRUE, RemoveNS |-> FALSE])]

Handlers == {MkHandler(FALSE, FALSE, FALSE), MkHandler(TRUE, FALSE, FALSE),
             MkHandler(FALSE, FALSE, TRUE)}

Last(s) == s[Len(s)]

annotation(h, soapAction) ==
    IF soapAction \in DOMAIN h.annotations THEN h.annotations[soapAction]
    ELSE IF Len(soapAction) >= 2 /\ <<Last(soapAction)>> \in DOMAIN h.annotations
         THEN h.annotations[<<Last(soapAction)>>]
         ELSE ZeroAnnotation

\* the annotation store after a lookup that adds the key it did not find
annotationsAfterInsert(hh, soapAction) ==
    (soapAction :> annotation(hh, soapAction)) @@ hh.annotations

\* the annotation store after h.annotation(soapAction): the index
\* expressions on the map only read, a key not found is not added
annotationsAfter(hh, soapAction) == hh.annotations

NilInp == [nil |-> TRUE, of |-> <<>>]

\* soapHandler.Input: the input value of the action, or of its last segment
Input(h, name) ==
    IF name \in h.inputs THEN [nil |-> FALSE, of |-> name]
    ELSE IF Len(name) >= 2 /\ <<Last(name)>> \in h.inputs
         THEN [nil |-> FALSE, of |-> <<Last(name)>>]
         ELSE NilInp

\* ------------------------------------------------------------ the request
\* What DecodeRequest observes of a request:
\*   sectionErr  MakeSectionReader fails
\*   bodyFound   findSoapBody finds a Body start element
\*   hdrElt      a Header start element exists
\*   hdrDecode   what the DecodeHeader hook returns for it: an encoder
\*               closure ("ok"), a nil closure ("okNil"), an error ("err")
\*   soapAction  the SOAPAction header, quotes trimmed
\*   forbidMerge strconv.ParseBool of the Forbid-Merge header
\*   skipErr     dec.Skip fails (raw mode)
\*   nextStart   what nextStart returns after Body: a start element ("ok"),
\*               io.EOF ("eof"), another error ("err")
\*   rootName    the local name of that start element
\*   hookRes     what the DecodeInput hook returns
\*   decodeRes   what dec.DecodeElement returns: nil, io.EOF, another error
\*   inpZero     the input type is a struct without fields
BaseRequest ==
    [method |-> "POST", sectionErr |-> FALSE, bodyFound |-> TRUE,
     hdrElt |-> FALSE, hdrDecode |-> "ok", soapAction |-> <<"Login">>,
     forbidMerge |-> FALSE, skipErr |-> FALSE, nextStart |-> "ok",
     rootName |-> "Login", hookRes |-> "ok", decodeRes |-> "ok",
     inpZero |-> FALSE]

Requests ==
    {BaseRequest,
     [BaseRequest EXCEPT !.method = "GET"],
     [BaseRequest EXCEPT !.sectionErr = TRUE],
     [BaseRequest EXCEPT !.bodyFound = FALSE],
     [BaseRequest EXCEPT !.hdrElt = TRUE],
     [BaseRequest EXCEPT !.hdrElt = TRUE, !.hdrDecode = "okNil"],
     [BaseRequest EXCEPT !.hdrElt = TRUE, !.hdrDecode = "err"],
     [BaseRequest EXCEPT !.soapAction = <<"ns", "x.proto", "svc", "Nope">>],
     [BaseRequest EXCEPT !.soapAction = <<"RawOp">>],
     [BaseRequest EXCEPT !.soapAction = <<"RawOp">>, !.skipErr = TRUE],
     [BaseRequest EXCEPT !.soapAction = <<"RawGone">>],
     [BaseRequest EXCEPT !.soapAction = <<>>, !.nextStart = "eof"],
     [BaseRequest EXCEPT !.soapAction = <<>>, !.rootName = "RawOp"],
     [BaseRequest EXCEPT !.soapAction = <<"Nope">>],
     [BaseRequest EXCEPT !.forbidMerge = TRUE],
     [BaseRequest EXCEPT !.nextStart = "err"],
     [BaseRequest EXCEPT !.hookRes = "err"],
     [BaseRequest EXCEPT !.decodeRes = "err"],
     [BaseRequest EXCEPT !.decodeRes = "eof"],
     [BaseRequest EXCEPT !.decodeRes = "eof", !.inpZero = TRUE]}

ZeroRequestInfo ==
    [EncodeHeader |-> FALSE, Action |-> <<>>, SOAPAction |-> <<>>,
     Raw |-> FALSE, RemoveNS |-> FALSE, ForbidMerge |-> FALSE]

\* the part of s after the last ".proto/", then after the first "/"
RECURSIVE LastProto(_, _)
LastProto(s, k) ==
    IF k = 0 THEN 0
    ELSE IF s[k] \in ProtoSegs /\ k < Len(s) THEN k
    ELSE LastProto(s, k - 1)

ActionOf(soapAction) ==
    LET i  == LastProto(soapAction, Len(soapAction))
        a1 == SubSeq(soapAction, i + 1, Len(soapAction))
    IN  IF Len(a1) >= 2 THEN Tail(a1) ELSE a1

Res(info, inp, err, panics) ==
    [request |-> info, inp |-> inp, err |-> err, panic |-> panics]

\* DecodeStandard looking the annotation up again with the action taken
\* from the payload root element
DecodeStandardLookupAgain(h, r, request0) ==
    LET st      == IF r.nextStart = "ok" THEN <<r.rootName>> ELSE <<>>
        request == IF request0.Action = <<>>
                   THEN [request0 EXCEPT !.Action = st,
                                         !.Raw = annotation(h, st).Raw]
                   ELSE request0
        inp     == Input(h, request.Action)
    IN  IF r.nextStart = "err" THEN Res(request0, NilInp, ErrNextStart, FALSE)
        ELSE IF h.DecodeInput
        THEN IF r.hookRes = "err" THEN Res(request, NilInp, ErrHook, FALSE)
             ELSE Res(request, [nil |-> FALSE, of |-> request.Action], NoErr, FALSE)
        ELSE IF inp.nil THEN Res(request, NilInp, ErrNotFound, FALSE)
        ELSE IF r.decodeRes = "ok" \/ (r.decodeRes = "eof" /\ r.inpZero)
        THEN Res(request, inp, NoErr, FALSE)
        ELSE Res(request, inp, ErrDecode, FALSE)

\* the part of DecodeRequest after the annotation lookup (standard mode)
DecodeStandard(h, r, request0) ==
    LET st      == IF r.nextStart = "ok" THEN <<r.rootName>> ELSE <<>>
        request == IF request0.Action = <<>>
                   THEN [request0 EXCEPT !.Action = st] ELSE request0
        inp     == Input(h, request.Action)
    IN  IF r.nextStart = "err" THEN Res(request0, NilInp, ErrNextStart, FALSE)
        ELSE IF h.DecodeInput
        THEN IF r.hookRes = "err" THEN Res(request, NilInp, ErrHook, FALSE)
             ELSE Res(request, [nil |-> FALSE, of |-> request.Action], NoErr, FALSE)
        ELSE IF inp.nil THEN Res(request, NilInp, ErrNotFound, FALSE)
        ELSE IF r.decodeRes = "ok" \/ (r.decodeRes = "eof" /\ r.inpZero)
        THEN Res(request, inp, NoErr, FALSE)
        ELSE Res(request, inp, ErrDecode, FALSE)

\* the raw pass-through part of DecodeRequest
DecodeRaw(h, r, request) ==
    LET inp == Input(h, request.Action)
    IN  IF r.skipErr THEN Res(request, NilInp, ErrSkip, FALSE)
        \* reflect.ValueOf(nil).Elem() panics
        ELSE IF inp.nil THEN Res(request, NilInp, NoErr, TRUE)
        ELSE Res(request, inp, NoErr, FALSE)

DecodeRequest(h, r) ==
    LET hdrSeen == h.DecodeHeader /\ r.hdrElt
        action  == ActionOf(r.soapAction)
        ann     == annotation(h, action)
        request == [EncodeHeader |-> hdrSeen /\ r.hdrDecode = "ok",
                    Action |-> action, SOAPAction |-> r.soapAction,
                    Raw |-> ann.Raw, RemoveNS |-> ann.RemoveNS,
                    ForbidMerge |-> r.forbidMerge]
    IN  IF r.sectionErr THEN Res(ZeroRequestInfo, NilInp, ErrSection, FALSE)
        ELSE IF ~r.bodyFound THEN Res(ZeroRequestInfo, NilInp, ErrFindBody, FALSE)
        ELSE IF hdrSeen /\ r.hdrDecode = "err"
        THEN Res([ZeroRequestInfo EXCEPT !.SOAPAction = r.soapAction,
                                         !.ForbidMerge = r.forbidMerge],
                 NilInp, ErrDecodeHeader, FALSE)
        ELSE IF request.Raw THEN DecodeRaw(h, r, request)
        ELSE DecodeStandard(h, r, request)

\* the annotation store after DecodeRequest: the store is looked up once
\* the body is found and the header decoded
StoreAfterDecode(hh, r) ==
    IF r.sectionErr \/ ~r.bodyFound
          \/ (hh.DecodeHeader /\ r.hdrElt /\ r.hdrDecode = "err")
    THEN hh.annotations
    ELSE annotationsAfter(hh, ActionOf(r.soapAction))

\* ------------------------------------------------------------- messages
\* A backend message is described by its repeatable fields: for each field
\* name, Absent when grpcer.SliceFields does not report the field, else the
\* number of elements the field holds.  The element i of field f of the
\* m-th Recv result is Item("Elem", m, f, i).
FieldNames == {"A", "B"}
\* the order of the fields in the message type
StructOrder == <<"A", "B">>
Absent == 0 - 1
Shapes == [FieldNames -> {Absent, 0, MaxElems}]
NoShape == [f \in FieldNames |-> Absent]

\* grpcer.SliceFields(part, "xml"): the names of the repeatable fields
SliceFields(shape) == SelectSeq(StructOrder, LAMBDA f : shape[f] # Absent)

\* what one Recv call returns: a message or an error
RecvMsgs == {[err |-> NoErr, msg |-> sh] : sh \in Shapes}
RecvFails == {[err |-> e, msg |-> NoShape] : e \in RecvErrs}
\* past the two eager pulls an error only ends the loop: end-of-stream or not
RecvFailsLate == {[err |-> e, msg |-> NoShape] : e \in {ErrEOF, ErrPlain}}

\* at most this many encode / temporary file / write failures are made to
\* happen while one response is encoded
MaxFaults == 1

VARIABLES
    pc,         \* where serveHTTP / encodeResponse stands
    h,          \* the soapHandler
    lazy,       \* the response writer holds back the status line
    w,          \* the response writer: status, body, panic
    request,    \* the requestInfo DecodeRequest returned
    decErr,     \* the error DecodeRequest returned
    calls,      \* how often h.Call was invoked
    callErr,    \* the error h.Call returned
    recvLog,    \* what the Recv calls returned, in call order
    part,       \* encodeResponse's part: index into recvLog, 0 for nil
    next,       \* encodeResponse's next: index into recvLog, 0 for nil
    slice,      \* the repeatable fields of part
    fieldOrder, \* the field names in first-seen order
    files,      \* the keys of ss.files
    temp,       \* the temporary files: created, content, closed
    suffix,     \* the write of the outer closing tag is deferred
    path,       \* the branch encodeResponse took
    faultLog,   \* the errors handed to encodeSoapFault
    ioFaults,   \* the failures made to happen so far
    arg,        \* the input a helper function is applied to
    res         \* what the helper function returned

vars == <<pc, h, lazy, w, request, decErr, calls, callErr, recvLog, part,
          next, slice, fieldOrder, files, temp, suffix, path, faultLog,
          ioFaults, arg, res>>

encVars == <<recvLog, part, next, slice, fieldOrder, files, temp, suffix,
             path, ioFaults>>

NoTemp == [f \in FieldNames |-> [created |-> FALSE, content |-> <<>>, closed |-> FALSE]]

\* no request is being served
Idle ==
    /\ lazy = FALSE
    /\ w = NewWriter
    /\ request = ZeroRequestInfo
    /\ decErr = NoErr
    /\ calls = 0
    /\ callErr = NoErr
    /\ recvLog = <<>>
    /\ part = 0
    /\ next = 0
    /\ slice = <<>>
    /\ fieldOrder = <<>>
    /\ files = {}
    /\ temp = NoTemp
    /\ suffix = FALSE
    /\ path = "none"
    /\ faultLog = <<>>
    /\ ioFaults = 0

\* the frame of the helper functions' steps
srvVars == <<lazy, w, request, decErr, calls, callErr, recvLog, part, next,
             slice, fieldOrder, files, temp, suffix, path, faultLog, ioFaults>>

Init ==
    /\ pc = "start"
    /\ h \in Handlers
    /\ lazy \in BOOLEAN
    /\ arg = <<>>
    /\ res = <<>>
    /\ w = NewWriter
    /\ request = ZeroRequestInfo
    /\ decErr = NoErr
    /\ calls = 0
    /\ callErr = NoErr
    /\ recvLog = <<>>
    /\ part = 0
    /\ next = 0
    /\ slice = <<>>
    /\ fieldOrder = <<>>
    /\ files = {}
    /\ temp = NoTemp
    /\ suffix = FALSE
    /\ path = "none"
    /\ faultLog = <<>>
    /\ ioFaults = 0

\* the handler returns (or panics): the response is complete
Return(w1) ==
    /\ w' = Finish(w1)
    /\ pc' = IF Finish(w1).panic THEN "panicked" ELSE "done"

\* ------------------------------------------------------------- serveHTTP
\* GET: the WSDL is written
ServeGET ==
    /\ pc = "start"
    /\ \E r \in Requests :
        /\ r.method = "GET"
        /\ Return(Write(w, lazy, <<Tag("WSDL")>>))
    /\ UNCHANGED <<h, lazy, arg, res, request, decErr, calls, callErr, faultLog>>
    /\ UNCHANGED encVars

\* DecodeRequest fails: a fault for a decode error, else a plain 400
ServeDecodeFail ==
    /\ pc = "start"
    /\ \E r \in Requests :
        LET d == DecodeRequest(h, r) IN
        /\ r.method # "GET"
        /\ ~d.panic
        /\ ~d.err.nil
        /\ request' = d.request
        /\ h' = [h EXCEPT !.annotations = StoreAfterDecode(h, r)]
        /\ decErr' = d.err
        /\ IF d.err.decode
           THEN /\ Return(soapError(w, lazy, d.err))
                /\ faultLog' = Append(faultLog, d.err)
           ELSE /\ Return(httpError(w, lazy, StatusBadRequest))
                /\ UNCHANGED faultLog
    /\ UNCHANGED <<lazy, arg, res, calls, callErr>>
    /\ UNCHANGED encVars

\* DecodeRequest panics (raw mode without a registered input)
ServeDecodePanic ==
    /\ pc = "start"
    /\ \E r \in Requests :
        LET d == DecodeRequest(h, r) IN
        /\ r.method # "GET"
        /\ d.panic
        /\ request' = d.request
        /\ h' = [h EXCEPT !.annotations = StoreAfterDecode(h, r)]
        /\ w' = [w EXCEPT !.panic = TRUE]
        /\ pc' = "panicked"
    /\ UNCHANGED <<lazy, arg, res, decErr, calls, callErr, faultLog>>
    /\ UNCHANGED encVars

ServeDecodeOK ==
    /\ pc = "start"
    /\ \E r \in Requests :
        LET d == DecodeRequest(h, r) IN
        /\ r.method # "GET"
        /\ ~d.panic
        /\ d.err.nil
        /\ request' = d.request
        /\ h' = [h EXCEPT !.annotations = StoreAfterDecode(h, r)]
        /\ pc' = "call"
    /\ UNCHANGED <<lazy, arg, res, w, decErr, calls, callErr, faultLog>>
    /\ UNCHANGED encVars

\* h.Call fails and the response is encoded all the same
CallFailEncodes ==
    /\ pc = "call"
    /\ \E e \in CallErrs : callErr' = e
    /\ calls' = calls + 1
    /\ pc' = "encode"
    /\ UNCHANGED <<h, lazy, arg, res, w, request, decErr, faultLog>>
    /\ UNCHANGED encVars

\* h.Call fails: soapError answers
CallFail ==
    /\ pc = "call"
    /\ \E e \in CallErrs :
        /\ callErr' = e
        /\ Return(soapError(w, lazy, e))
        /\ faultLog' = Append(faultLog, e)
    /\ calls' = calls + 1
    /\ UNCHANGED <<h, lazy, arg, res, request, decErr>>
    /\ UNCHANGED encVars

CallOK ==
    /\ pc = "call"
    /\ calls' = calls + 1
    /\ pc' = "encode"
    /\ UNCHANGED <<h, lazy, arg, res, w, request, decErr, callErr, faultLog>>
    /\ UNCHANGED encVars

\* -------------------------------------------------------- encodeResponse
\* what the next Recv call can return after the calls logged in log
RecvNext(log) ==
    LET fails == IF Len(log) < 2 THEN RecvFails ELSE RecvFailsLate
    IN  IF log # <<>> /\ ~log[Len(log)].err.nil THEN fails
        ELSE IF Len(log) < MaxMsgs THEN RecvMsgs \cup fails
        ELSE fails

\* FaultOf with the second pull's error tested first
FaultOfSecond(r1, r2) ==
    IF ~r2.err.nil /\ ~r2.err.eof THEN r2.err
    ELSE IF ~r1.err.nil THEN r1.err
    ELSE NoErr

\* the error the eager pulls make encodeResponse answer with a fault
\* (NoErr: none): the first pull's error, else the second pull's error
\* unless it is end-of-stream
FaultOf(r1, r2) ==
    IF ~r1.err.nil THEN r1.err
    ELSE IF ~r2.err.nil /\ ~r2.err.eof THEN r2.err
    ELSE NoErr

\* shouldMerge without the test of Forbid-Merge
shouldMergeForbidIgnored(hh, req, r2) ==
    ~req.Raw /\ ~hh.EncodeOutput /\ r2.err.nil

shouldMerge(hh, req, r2) ==
    ~req.Raw /\ ~hh.EncodeOutput /\ r2.err.nil /\ ~req.ForbidMerge

\* envelope header, the Header block unless EncodeHeader is nil or fails,
\* the Body open tag
Prologue(w0, lazyHdr, req, r1, hdrErr) ==
    LET w1 == Write(w0, lazyHdr, <<Tag("EnvHeader")>>)
        w2 == IF req.EncodeHeader /\ ~hdrErr
              THEN Write(w1, lazyHdr, <<Item("Header", 0, r1.err.name, 0)>>)
              ELSE w1
    IN  Write(w2, lazyHdr, <<Tag("BodyOpen")>>)

\* the errors request.EncodeHeader has been called with: encodeResponse
\* calls it once, with the first Recv's error, when it is not nil
HeaderEncoderCalls ==
    IF request.EncodeHeader /\ recvLog # <<>> THEN <<recvLog[1].err>> ELSE <<>>

\* the deferred write of the envelope footer
Footer(w0, lazyHdr) == Write(w0, lazyHdr, <<Tag("Footer")>>)

\* the first message is encoded before the fault of the second pull
EncodeFaultAfterPart ==
    /\ pc = "encode"
    /\ \E r1 \in RecvNext(<<>>) : \E r2 \in RecvNext(<<r1>>) :
       \E hdrErr \in (IF request.EncodeHeader THEN BOOLEAN ELSE {FALSE}) :
        LET e  == FaultOf(r1, r2)
            w3 == Prologue(w, lazy, request, r1, hdrErr)
            w4 == IF r1.err.nil
                  THEN Write(w3, lazy, <<Item("Msg", 1, "", 0), Tag("NL")>>)
                  ELSE w3
        IN  /\ ~e.nil
            /\ recvLog' = <<r1, r2>>
            /\ faultLog' = Append(faultLog, e)
            /\ Return(Footer(encodeSoapFault(w4, lazy, e, TRUE), lazy))
    /\ path' = "fault"
    /\ UNCHANGED <<h, lazy, arg, res, request, decErr, calls, callErr>>
    /\ UNCHANGED <<part, next, slice, fieldOrder, files, temp, suffix, ioFaults>>

\* the eager pulls end in a fault
EncodeFault ==
    /\ pc = "encode"
    /\ \E r1 \in RecvNext(<<>>) : \E r2 \in RecvNext(<<r1>>) :
       \E hdrErr \in (IF request.EncodeHeader THEN BOOLEAN ELSE {FALSE}) :
        LET e  == FaultOf(r1, r2)
            w3 == Prologue(w, lazy, request, r1, hdrErr)
        IN  /\ ~e.nil
            /\ recvLog' = <<r1, r2>>
            /\ faultLog' = Append(faultLog, e)
            /\ Return(Footer(encodeSoapFault(w3, lazy, e, TRUE), lazy))
    /\ path' = "fault"
    /\ UNCHANGED <<h, lazy, arg, res, request, decErr, calls, callErr>>
    /\ UNCHANGED <<part, next, slice, fieldOrder, files, temp, suffix, ioFaults>>

\* the eager pulls succeed: the no-merge or the merge loop is entered
EncodeBegin ==
    /\ pc = "encode"
    /\ \E r1 \in RecvNext(<<>>) : \E r2 \in RecvNext(<<r1>>) :
       \E hdrErr \in (IF request.EncodeHeader THEN BOOLEAN ELSE {FALSE}) :
        LET w3 == Prologue(w, lazy, request, r1, hdrErr)
            sl == IF shouldMerge(h, request, r2) THEN SliceFields(r1.msg) ELSE <<>>
        IN  /\ FaultOf(r1, r2).nil
            /\ recvLog' = <<r1, r2>>
            /\ part' = 1
            /\ next' = IF r2.err.nil THEN 2 ELSE 0
            /\ IF Len(sl) = 0
               THEN /\ w' = IF request.Raw
                            THEN Write(w3, lazy, <<Tag("RawOpen")>>) ELSE w3
                    /\ pc' = "nomerge"
                    /\ path' = "nomerge"
                    /\ UNCHANGED <<slice, fieldOrder>>
               ELSE /\ w' = w3
                    /\ pc' = "merge"
                    /\ path' = "merge"
                    /\ slice' = sl
                    /\ fieldOrder' = sl
    /\ UNCHANGED <<h, lazy, arg, res, request, decErr, calls, callErr, faultLog>>
    /\ UNCHANGED <<files, temp, suffix, ioFaults>>

\* ---- the no-merge loop
\* the end of the no-merge path: the raw closing tag, the deferred footer
NoMergeReturn(w0) ==
    Return(Footer(IF request.Raw THEN Write(w0, lazy, <<Tag("RawClose")>>) ELSE w0,
                  lazy))

\* the part is encoded and written, with a newline
EncodePart(w0, lazyHdr, p) ==
    Write(w0, lazyHdr, <<Item("Msg", p, "", 0), Tag("NL")>>)

\* encoding the part fails: the loop ends
NoMergeEncodeFail ==
    /\ pc = "nomerge"
    /\ ~request.Raw
    /\ ioFaults < MaxFaults
    /\ ioFaults' = ioFaults + 1
    /\ NoMergeReturn(w)
    /\ UNCHANGED <<h, lazy, arg, res, request, decErr, calls, callErr, faultLog>>
    /\ UNCHANGED <<recvLog, part, next, slice, fieldOrder, files, temp, suffix, path>>

\* the part is encoded, Recv returns another message
NoMergeNext ==
    /\ pc = "nomerge"
    /\ \E r \in RecvNext(recvLog) :
        /\ r.err.nil
        /\ recvLog' = Append(recvLog, r)
        /\ part' = Len(recvLog) + 1
    /\ w' = EncodePart(w, lazy, part)
    /\ UNCHANGED <<pc, h, lazy, arg, res, request, decErr, calls, callErr, faultLog>>
    /\ UNCHANGED <<next, slice, fieldOrder, files, temp, suffix, path, ioFaults>>

\* the loop ends with a Fault for a Recv error that is not end-of-stream
NoMergeEndFaults ==
    /\ pc = "nomerge"
    /\ \E r \in RecvNext(recvLog) :
        /\ ~r.err.nil
        /\ recvLog' = Append(recvLog, r)
        /\ NoMergeReturn(IF r.err.eof THEN EncodePart(w, lazy, part)
                         ELSE encodeSoapFault(EncodePart(w, lazy, part), lazy,
                                              r.err, TRUE))
    /\ part' = 0
    /\ UNCHANGED <<h, lazy, arg, res, request, decErr, calls, callErr, faultLog>>
    /\ UNCHANGED <<next, slice, fieldOrder, files, temp, suffix, path, ioFaults>>

\* the part is encoded, Recv returns an error: the loop ends
NoMergeEnd ==
    /\ pc = "nomerge"
    /\ \E r \in RecvNext(recvLog) :
        /\ ~r.err.nil
        /\ recvLog' = Append(recvLog, r)
    /\ part' = 0
    /\ NoMergeReturn(EncodePart(w, lazy, part))
    /\ UNCHANGED <<h, lazy, arg, res, request, decErr, calls, callErr, faultLog>>
    /\ UNCHANGED <<next, slice, fieldOrder, files, temp, suffix, path, ioFaults>>

\* ---- the merge loop
\* the elements of field f of the m-th Recv result
Elems(m, f, n) == [i \in 1..n |-> Item("Elem", m, f, i)]

\* sliceSaver.Encode truncating the file on every write
ssEncodeTruncate(fs, tf, name, elems) ==
    [files |-> fs \cup {name},
     temp  |-> [tf EXCEPT ![name].created = TRUE, ![name].content = elems]]

\* sliceSaver.Encode without failure: the elements are appended to the
\* field's temporary file, which is created and registered if missing
ssEncode(fs, tf, name, elems) ==
    [files |-> fs \cup {name},
     temp  |-> [tf EXCEPT ![name].created = TRUE,
                          ![name].content = @ \o elems]]

\* sliceSaver.Encode failing in fh.Write: the file is there, nothing added
ssEncodeWriteErr(fs, tf, name) ==
    [files |-> fs \cup {name}, temp |-> [tf EXCEPT ![name].created = TRUE]]

\* sliceSaver.Close forgetting to close the files
ssCloseLeak(fs, tf) == [files |-> {}, temp |-> tf]

\* sliceSaver.Close: every registered file is unregistered and closed
ssClose(fs, tf) ==
    [files |-> {},
     temp  |-> [f \in FieldNames |->
                  IF f \in fs THEN [tf[f] EXCEPT !.closed = TRUE] ELSE tf[f]]]

\* the failure made to happen while the fields of one message are spooled:
\* none, or for one field a failure of EncodeElement ("encErr"), of
\* NewTempFile ("tmpErr") or of fh.Write ("writeErr")
NoFail == [f |-> "none", kind |-> "none"]
SpillFails == {NoFail} \cup [f : FieldNames, kind : {"encErr", "tmpErr", "writeErr"}]

\* the failure can happen: the field is spooled, and a temporary file is
\* only created when the field has none
SpillFailOK(fail, sl, shape, fs) ==
    \/ fail = NoFail
    \/ /\ fail # NoFail
       /\ ioFaults < MaxFaults
       /\ \E k \in 1..Len(sl) : sl[k] = fail.f
       /\ shape[fail.f] > 0
       /\ fail.kind = "tmpErr" => fail.f \notin fs

\* the loop over the repeatable fields of part: empty fields are skipped,
\* the first failure ends the loop
RECURSIVE Spill(_, _, _, _, _)
Spill(fields, m, shape, st, fail) ==
    IF fields = <<>> THEN st
    ELSE LET f == Head(fields) IN
         IF shape[f] <= 0 THEN Spill(Tail(fields), m, shape, st, fail)
         ELSE IF fail.f = f
              THEN IF fail.kind = "writeErr"
                   THEN ssEncodeWriteErr(st.files, st.temp, f)
                   ELSE st
              ELSE Spill(Tail(fields), m, shape,
                         ssEncode(st.files, st.temp, f, Elems(m, f, shape[f])), fail)

\* AddFieldOrder putting the new names in front
RECURSIVE AddFieldOrderFront(_, _)
AddFieldOrderFront(order, sl) ==
    IF sl = <<>> THEN order
    ELSE IF \E k \in 1..Len(order) : order[k] = Head(sl)
         THEN AddFieldOrderFront(order, Tail(sl))
         ELSE AddFieldOrderFront(<<Head(sl)>> \o order, Tail(sl))

\* the names of sl not yet in order are appended to it
RECURSIVE AddFieldOrder(_, _)
AddFieldOrder(order, sl) ==
    IF sl = <<>> THEN order
    ELSE IF \E k \in 1..Len(order) : order[k] = Head(sl)
         THEN AddFieldOrder(order, Tail(sl))
         ELSE AddFieldOrder(Append(order, Head(sl)), Tail(sl))

\* the outer element written whole, closing tag included
OuterOpenWhole(w0, lazyHdr, p) ==
    Write(w0, lazyHdr, <<Item("OuterOpen", p, "", 0), Tag("OuterClose"), Tag("NL")>>)

\* the opening part of the outer element with the scalar fields of part
OuterOpen(w0, lazyHdr, p) ==
    Write(w0, lazyHdr, <<Item("OuterOpen", p, "", 0), Tag("NL")>>)

\* first iteration: encoding the scalar fields, finding the outer tag or
\* writing the opening part fails; the loop ends
MergeFirstFail ==
    /\ pc = "merge"
    /\ next # 0
    /\ ioFaults < MaxFaults
    /\ ioFaults' = ioFaults + 1
    /\ pc' = "drain"
    /\ UNCHANGED <<h, lazy, arg, res, w, request, decErr, calls, callErr, faultLog>>
    /\ UNCHANGED <<recvLog, part, next, slice, fieldOrder, files, temp, suffix, path>>

\* first iteration: the opening part is written, the fields of the first
\* message are spooled, the second eagerly pulled message becomes part
MergeFirst ==
    /\ pc = "merge"
    /\ next # 0
    /\ \E fail \in SpillFails :
        LET st == Spill(slice, part, recvLog[part].msg,
                        [files |-> files, temp |-> temp], fail)
        IN  /\ SpillFailOK(fail, slice, recvLog[part].msg, files)
            /\ files' = st.files
            /\ temp' = st.temp
            /\ ioFaults' = IF fail = NoFail THEN ioFaults ELSE ioFaults + 1
    /\ w' = OuterOpen(w, lazy, part)
    /\ suffix' = TRUE
    /\ part' = next
    /\ next' = 0
    /\ slice' = SliceFields(recvLog[next].msg)
    /\ fieldOrder' = AddFieldOrder(fieldOrder, SliceFields(recvLog[next].msg))
    /\ UNCHANGED <<pc, h, lazy, arg, res, request, decErr, calls, callErr, faultLog>>
    /\ UNCHANGED <<recvLog, path>>

\* later iteration that encodes the outer element again for the new part
MergeNextReencodes ==
    /\ pc = "merge"
    /\ next = 0
    /\ \E r \in RecvNext(recvLog) :
        /\ r.err.nil
        /\ recvLog' = Append(recvLog, r)
        /\ part' = Len(recvLog) + 1
        /\ slice' = SliceFields(r.msg)
        /\ fieldOrder' = AddFieldOrder(fieldOrder, SliceFields(r.msg))
        /\ w' = OuterOpen(w, lazy, Len(recvLog) + 1)
    /\ UNCHANGED <<pc, h, lazy, arg, res, request, decErr, calls, callErr, faultLog>>
    /\ UNCHANGED <<next, suffix, path, files, temp, ioFaults>>

\* later iteration: the fields of part are spooled, Recv returns a message
MergeNext ==
    /\ pc = "merge"
    /\ next = 0
    /\ \E fail \in SpillFails :
        LET st == Spill(slice, part, recvLog[part].msg,
                        [files |-> files, temp |-> temp], fail)
        IN  /\ SpillFailOK(fail, slice, recvLog[part].msg, files)
            /\ files' = st.files
            /\ temp' = st.temp
            /\ ioFaults' = IF fail = NoFail THEN ioFaults ELSE ioFaults + 1
    /\ \E r \in RecvNext(recvLog) :
        /\ r.err.nil
        /\ recvLog' = Append(recvLog, r)
        /\ part' = Len(recvLog) + 1
        /\ slice' = SliceFields(r.msg)
        /\ fieldOrder' = AddFieldOrder(fieldOrder, SliceFields(r.msg))
    /\ UNCHANGED <<pc, h, lazy, arg, res, w, request, decErr, calls, callErr, faultLog>>
    /\ UNCHANGED <<next, suffix, path>>

\* later iteration: the fields of part are spooled, Recv returns an error
\* (end-of-stream or another): the loop ends
MergeEnd ==
    /\ pc = "merge"
    /\ next = 0
    /\ \E fail \in SpillFails :
        LET st == Spill(slice, part, recvLog[part].msg,
                        [files |-> files, temp |-> temp], fail)
        IN  /\ SpillFailOK(fail, slice, recvLog[part].msg, files)
            /\ files' = st.files
            /\ temp' = st.temp
            /\ ioFaults' = IF fail = NoFail THEN ioFaults ELSE ioFaults + 1
    /\ \E r \in RecvNext(recvLog) :
        /\ ~r.err.nil
        /\ recvLog' = Append(recvLog, r)
    /\ part' = 0
    /\ pc' = "drain"
    /\ UNCHANGED <<h, lazy, arg, res, w, request, decErr, calls, callErr, faultLog>>
    /\ UNCHANGED <<next, slice, fieldOrder, suffix, path>>

\* ---- the drain loop and the deferred calls
\* the failure made to happen while the files are copied: none, or for one
\* file a failure of GetReader ("readerErr") or of io.Copy ("copyErr")
NoDrainFail == [f |-> "none", kind |-> "none"]
DrainFails == {NoDrainFail} \cup [f : FieldNames, kind : {"readerErr", "copyErr"}]

DrainFailOK(fail, fs, tf) ==
    \/ fail = NoDrainFail
    \/ /\ fail # NoDrainFail
       /\ ioFaults < MaxFaults
       /\ fail.f \in fs
       /\ fail.kind = "copyErr" => tf[fail.f].content # <<>>

\* what io.Copy has written of a file when it fails: all but the end
CopyCut(content) == SubSeq(content, 1, Len(content) - 1)

\* the loop over fieldOrder.  A name without a file makes GetReader run on
\* a nil *grpcer.TempFile: it returns an error or panics (nilPanics).
RECURSIVE DrainLoop(_, _, _, _, _, _)
DrainLoop(order, fs, tf, out, fail, nilPanics) ==
    IF order = <<>> THEN [out |-> out, panic |-> FALSE]
    ELSE LET nm == Head(order) IN
         IF nm \notin fs
         THEN IF nilPanics THEN [out |-> out, panic |-> TRUE]
              ELSE DrainLoop(Tail(order), fs, tf, out, fail, nilPanics)
         ELSE IF fail.f = nm
              THEN DrainLoop(Tail(order), fs, tf,
                             IF fail.kind = "copyErr"
                             THEN out \o CopyCut(tf[nm].content) ELSE out,
                             fail, nilPanics)
              ELSE DrainLoop(Tail(order), fs, tf, out \o tf[nm].content, fail, nilPanics)

\* the spill buffers are copied to the response; then the deferred calls
\* run, last registered first: the outer closing tag, ss.Close, the footer
Drain ==
    /\ pc = "drain"
    /\ \E fail \in DrainFails :
       \E nilPanics \in (IF \E k \in 1..Len(fieldOrder) : fieldOrder[k] \notin files
                         THEN BOOLEAN ELSE {FALSE}) :
        LET d  == DrainLoop(fieldOrder, files, temp, <<>>, fail, nilPanics)
            w1 == Write(w, lazy, d.out)
            w2 == IF suffix THEN Write(w1, lazy, <<Tag("OuterClose")>>) ELSE w1
            w3 == Finish(Footer(w2, lazy))
            c  == ssClose(files, temp)
        IN  /\ DrainFailOK(fail, files, temp)
            /\ ioFaults' = IF fail = NoDrainFail THEN ioFaults ELSE ioFaults + 1
            /\ files' = c.files
            /\ temp' = c.temp
            /\ w' = IF d.panic THEN [w3 EXCEPT !.panic = TRUE] ELSE w3
            /\ pc' = IF d.panic \/ w3.panic THEN "panicked" ELSE "done"
    /\ UNCHANGED <<h, lazy, arg, res, request, decErr, calls, callErr, faultLog>>
    /\ UNCHANGED <<recvLog, part, next, slice, fieldOrder, suffix, path>>

Next ==
    \/ ServeGET
    \/ ServeDecodeFail
    \/ ServeDecodePanic
    \/ ServeDecodeOK
    \/ CallFail
    \/ CallOK
    \/ EncodeFault
    \/ EncodeBegin
    \/ NoMergeEncodeFail
    \/ NoMergeNext
    \/ NoMergeEnd
    \/ MergeFirstFail
    \/ MergeFirst
    \/ MergeNext
    \/ MergeEnd
    \/ Drain

Spec == Init /\ [][Next]_vars

\* ================================================== XML token utilities
\* at most this many tokens in a document handed to FilterEmptyTags
MaxToks == 5

\* A document is the sequence of the tokens its text holds: start element
\* "S" and end element "E" of a name, character data "T", and "C" for a
\* comment, directive or processing instruction.  <a/> is "S", "E".
ElemNames == {"a", "b"}
Tok(k, n) == [k |-> k, n |-> n]
TokAlphabet ==
    {Tok("S", n) : n \in ElemNames} \cup {Tok("E", n) : n \in ElemNames}
        \cup {Tok("T", "t"), Tok("C", "")}
Docs == UNION {[1..n -> TokAlphabet] : n \in 0..MaxToks}

\* xml.Decoder.Token over doc from token i with the open elements stack:
\* n tokens are delivered, then io.EOF (err FALSE) or a syntax error (err
\* TRUE: an end tag that closes no open element, or elements left open)
RECURSIVE Scan(_, _, _)
Scan(doc, i, stack) ==
    IF i > Len(doc) THEN [n |-> Len(doc), err |-> stack # <<>>]
    ELSE IF doc[i].k = "S" THEN Scan(doc, i + 1, Append(stack, doc[i].n))
    ELSE IF doc[i].k = "E"
    THEN IF stack # <<>> /\ Last(stack) = doc[i].n
         THEN Scan(doc, i + 1, SubSeq(stack, 1, Len(stack) - 1))
         ELSE [n |-> i - 1, err |-> TRUE]
    ELSE Scan(doc, i + 1, stack)

\* The steps of FilterEmptyTags on token i of doc.  unwritten and out hold
\* token indices: unwritten the tokens held back, out the tokens encoded.
FilterState(unwritten, out) == [unwritten |-> unwritten, out |-> out]

\* Comment, Directive, ProcInst: encoded at once
OnOther(doc, i, st) == FilterState(st.unwritten, Append(st.out, i))

\* StartElement: the held tokens are encoded, the start tag is held back
OnStart(doc, i, st) == FilterState(<<i>>, st.out \o st.unwritten)

\* EndElement encoded although the start tag held back is dropped
OnEndKeepsEnd(doc, i, st) ==
    IF st.unwritten # <<>> /\ doc[Last(st.unwritten)].k = "S"
    THEN FilterState(SubSeq(st.unwritten, 1, Len(st.unwritten) - 1),
                     Append(st.out, i))
    ELSE FilterState(<<>>, Append(st.out \o st.unwritten, i))

\* EndElement: cancels a start tag held back, else is encoded
OnEnd(doc, i, st) ==
    IF st.unwritten # <<>> /\ doc[Last(st.unwritten)].k = "S"
    THEN FilterState(SubSeq(st.unwritten, 1, Len(st.unwritten) - 1), st.out)
    ELSE FilterState(<<>>, Append(st.out \o st.unwritten, i))

\* CharData encoded while the start tag held back is dropped
OnCharDataDropStart(doc, i, st) == FilterState(<<>>, Append(st.out, i))

\* CharData: encoded, after the start tag held back
OnCharData(doc, i, st) ==
    IF st.unwritten = <<>> THEN FilterState(<<>>, Append(st.out, i))
    ELSE IF doc[Last(st.unwritten)].k = "S"
    THEN FilterState(<<>>, Append(st.out \o st.unwritten, i))
    ELSE FilterState(Append(st.unwritten, i), st.out)

RECURSIVE FilterLoop(_, _, _, _)
FilterLoop(doc, n, i, st) ==
    IF i > n THEN st
    ELSE FilterLoop(doc, n, i + 1,
            CASE doc[i].k = "S" -> OnStart(doc, i, st)
              [] doc[i].k = "E" -> OnEnd(doc, i, st)
              [] doc[i].k = "T" -> OnCharData(doc, i, st)
              [] OTHER -> OnOther(doc, i, st))

\* FilterEmptyTags(w, r): err is the error returned, idx the indices of
\* the tokens encoded, in output order, out those tokens.  After a decoder
\* error the function returns without the last Unwrite and Flush: out is
\* then what was encoded so far.
FilterEmptyTags(doc) ==
    LET d   == Scan(doc, 1, <<>>)
        st  == FilterLoop(doc, d.n, 1, FilterState(<<>>, <<>>))
        idx == IF d.err THEN st.out ELSE st.out \o st.unwritten
    IN  [err |-> d.err, idx |-> idx, out |-> [j \in 1..Len(idx) |-> doc[idx[j]]]]

\* mayFilterEmptyTags filtering whatever the flags say
mayFilterEmptyTagsAlways(keepHeader, keepQuery, doc) ==
    IF FilterEmptyTags(doc).err THEN doc ELSE FilterEmptyTags(doc).out

\* mayFilterEmptyTags: the body the decoder reads.  keepHeader: the header
\* Keep-Empty-Tags is "1"; keepQuery: the query parameter keepEmptyTags is
\* "1".  When the filter fails the body read so far is put back.
mayFilterEmptyTags(keepHeader, keepQuery, doc) ==
    IF keepHeader \/ keepQuery THEN doc
    ELSE IF FilterEmptyTags(doc).err THEN doc
    ELSE FilterEmptyTags(doc).out

NoRes == [err |-> FALSE, idx |-> <<>>, out |-> <<>>, out2 |-> <<>>,
          keep |-> FALSE, body |-> <<>>]

InitFilter ==
    /\ pc = "filter"
    /\ h = MkHandler(FALSE, FALSE, FALSE)
    /\ Idle
    /\ arg \in Docs
    /\ res = NoRes

\* FilterEmptyTags is applied to the document
FilterOnce ==
    /\ pc = "filter"
    /\ pc' = "filtered"
    /\ res' = [res EXCEPT !.err = FilterEmptyTags(arg).err,
                          !.idx = FilterEmptyTags(arg).idx,
                          !.out = FilterEmptyTags(arg).out]
    /\ UNCHANGED <<h, arg>>
    /\ UNCHANGED srvVars

\* FilterEmptyTags is applied to its own output
FilterAgain ==
    /\ pc = "filtered"
    /\ pc' = "refiltered"
    /\ res' = [res EXCEPT !.out2 = FilterEmptyTags(res.out).out]
    /\ UNCHANGED <<h, arg>>
    /\ UNCHANGED srvVars

\* serveHTTP's call of mayFilterEmptyTags on a request with the document
\* as body
MayFilter ==
    /\ pc = "filter"
    /\ pc' = "body"
    /\ \E keepHeader \in BOOLEAN, keepQuery \in BOOLEAN :
        res' = [res EXCEPT !.keep = keepHeader \/ keepQuery,
                           !.body = mayFilterEmptyTags(keepHeader, keepQuery, arg)]
    /\ UNCHANGED <<h, arg>>
    /\ UNCHANGED srvVars

NextFilter ==
    \/ FilterOnce
    \/ FilterAgain
    \/ MayFilter

SpecFilter == InitFilter /\ [][NextFilter]_vars

\* ============================================================ TrimInput
\* at most this many tokens in a raw fragment handed to TrimInput
MaxRaw == 6

\* the end tag that closes an element of a well-formed document: j is the
\* index after its start tag, depth the elements opened since
RECURSIVE MatchEnd(_, _, _)
MatchEnd(doc, j, depth) ==
    IF doc[j].k = "E" /\ depth = 0 THEN j
    ELSE MatchEnd(doc, j + 1,
            IF doc[j].k = "S" THEN depth + 1
            ELSE IF doc[j].k = "E" THEN depth - 1 ELSE depth)

\* strings.HasSuffix(name, "_Input")
HasInputSuffix(name) == name \in {"X_Input"}

\* white space is character data " "
Space == Tok("T", " ")
RawAlphabet ==
    {Tok("S", n) : n \in {"X_Input", "c"}} \cup {Tok("E", n) : n \in {"X_Input", "c"}}
        \cup {Tok("T", "t"), Space}

\* strings.TrimSpace
RECURSIVE TrimLeft(_)
TrimLeft(doc) ==
    IF doc # <<>> /\ Head(doc) = Space THEN TrimLeft(Tail(doc)) ELSE doc
RECURSIVE TrimRight(_)
TrimRight(doc) ==
    IF doc # <<>> /\ Last(doc) = Space
    THEN TrimRight(SubSeq(doc, 1, Len(doc) - 1)) ELSE doc
TrimSpace(doc) == TrimRight(TrimLeft(doc))

\* the well-formed fragments wrapped in an element whose name ends in
\* _Input, white space around it allowed
Wrapped(doc) ==
    LET d == TrimSpace(doc)
    IN  /\ Scan(doc, 1, <<>>) = [n |-> Len(doc), err |-> FALSE]
        /\ d # <<>>
        /\ d[1].k = "S"
        /\ HasInputSuffix(d[1].n)
        /\ MatchEnd(d, 2, 0) = Len(d)
RawDocs == {d \in UNION {[1..n -> RawAlphabet] : n \in 2..MaxRaw} : Wrapped(d)}

\* the attributes an _Input start tag carries, as the decoder reports them:
\* xmlns="u" is (Space "", Local "xmlns"), xmlns:p="u" is (Space "xmlns",
\* Local "p"), _xmlns:p="u" is (Space "_xmlns", Local "p")
Attr(space, local, value) == [Space |-> space, Local |-> local, Value |-> value]
AttrLists ==
    {<<>>, <<Attr("", "xmlns", "u")>>, <<Attr("_xmlns", "p", "v")>>,
     <<Attr("xmlns", "p", "v")>>,
     <<Attr("", "xmlns", "u"), Attr("_xmlns", "p", "v")>>}

\* An xml.Decoder over doc: pos tokens consumed (InputOffset), the open
\* elements, and dead once Token has returned an error.
NewDecoder == [pos |-> 0, stack |-> <<>>, dead |-> FALSE]

\* nextStart(dec): st is the name of the start element found; err: an end
\* element was met first (io.EOF) or the decoder failed
RECURSIVE nextStart(_, _)
nextStart(doc, dec) ==
    IF dec.dead \/ dec.pos >= Len(doc)
    THEN [err |-> TRUE, st |-> "", dec |-> [dec EXCEPT !.dead = TRUE]]
    ELSE LET t == doc[dec.pos + 1] IN
         IF t.k = "S"
         THEN [err |-> FALSE, st |-> t.n,
               dec |-> [dec EXCEPT !.pos = @ + 1, !.stack = Append(@, t.n)]]
         ELSE IF t.k = "E"
         THEN IF dec.stack # <<>> /\ Last(dec.stack) = t.n
              THEN [err |-> TRUE, st |-> "",
                    dec |-> [dec EXCEPT !.pos = @ + 1,
                                        !.stack = SubSeq(@, 1, Len(@) - 1)]]
              ELSE [err |-> TRUE, st |-> "",
                    dec |-> [dec EXCEPT !.pos = @ + 1, !.dead = TRUE]]
         ELSE nextStart(doc, [dec EXCEPT !.pos = @ + 1])

\* dec.Skip(): tokens are consumed up to the end element of the element
\* the decoder is in, or up to an error
RECURSIVE Skip(_, _, _)
Skip(doc, dec, depth) ==
    IF dec.dead \/ dec.pos >= Len(doc) THEN [dec EXCEPT !.dead = TRUE]
    ELSE LET t == doc[dec.pos + 1] IN
         IF t.k = "S"
         THEN Skip(doc, [dec EXCEPT !.pos = @ + 1, !.stack = Append(@, t.n)],
                   depth + 1)
         ELSE IF t.k = "E"
         THEN IF dec.stack # <<>> /\ Last(dec.stack) = t.n
              THEN LET d1 == [dec EXCEPT !.pos = @ + 1,
                                         !.stack = SubSeq(@, 1, Len(@) - 1)]
                   IN  IF depth = 0 THEN d1 ELSE Skip(doc, d1, depth - 1)
              ELSE [dec EXCEPT !.pos = @ + 1, !.dead = TRUE]
         ELSE Skip(doc, [dec EXCEPT !.pos = @ + 1], depth)

\* the loop of TrimInput: nextStart until a name ends in _Input
RECURSIVE FindInput(_, _)
FindInput(doc, dec) ==
    LET r == nextStart(doc, dec)
    IN  IF r.err \/ HasInputSuffix(r.st) THEN r ELSE FindInput(doc, r.dec)

\* the xmlns attributes TrimInput collects: those in otherNS, else the
\* default namespace attribute
RECURSIVE OtherNS(_)
OtherNS(attrs) ==
    IF attrs = <<>> THEN <<>>
    ELSE LET a  == Head(attrs)
             a1 == IF a.Space = "_xmlns"
                   THEN Attr(a.Local, "xmlns", a.Value) ELSE a
         IN  IF a1.Local = "xmlns" /\ a1.Space # ""
             THEN <<a1>> \o OtherNS(Tail(attrs)) ELSE OtherNS(Tail(attrs))

RECURSIVE GlobalNS(_, _)
GlobalNS(attrs, g) ==
    IF attrs = <<>> THEN g
    ELSE GlobalNS(Tail(attrs),
            IF Head(attrs).Space = "" /\ Head(attrs).Local = "xmlns"
            THEN Head(attrs) ELSE g)

\* request.TrimInput(rawXML): the string returned and the Prefix and
\* Postfix the request holds afterwards.  attrsOf: the attributes of the
\* _Input start tags of rawXML.
TrimInput(req, attrsOf, rawXML) ==
    LET doc    == TrimSpace(rawXML)
        f      == FindInput(doc, NewDecoder)
        endPos == f.dec.pos
        d2     == Skip(doc, nextStart(doc, f.dec).dec, 0)
        raw    == IF f.err THEN doc
                  ELSE TrimSpace(SubSeq(doc, endPos + 1, d2.pos))
        attrs  == IF f.err THEN <<>> ELSE attrsOf
        g      == GlobalNS(attrs, Attr("", "", ""))
        other  == IF OtherNS(attrs) = <<>> /\ g.Value # ""
                  THEN <<g>> ELSE OtherNS(attrs)
        pfx    == IF req.Prefix = "" /\ other # <<>> /\ other[1].Space # ""
                  THEN other[1].Space ELSE req.Prefix
    IN  IF ~req.RemoveNS
        THEN [raw |-> raw, Prefix |-> req.Prefix, Postfix |-> req.Postfix]
        ELSE [raw |-> raw, Prefix |-> pfx, Postfix |-> other]

NoTrim == [raw |-> <<>>, Prefix |-> "", Postfix |-> <<>>, raw2 |-> <<>>]

InitTrim ==
    /\ pc = "trim"
    /\ h = MkHandler(FALSE, FALSE, FALSE)
    /\ Idle
    /\ arg \in [doc : RawDocs, attrs : AttrLists, RemoveNS : BOOLEAN]
    /\ res = NoTrim

\* DecodeRequest's call of TrimInput on the raw fragment
TrimOnce ==
    /\ pc = "trim"
    /\ pc' = "trimmed"
    /\ LET t == TrimInput([RemoveNS |-> arg.RemoveNS, Prefix |-> "", Postfix |-> <<>>],
                          arg.attrs, arg.doc)
       IN  res' = [res EXCEPT !.raw = t.raw, !.Prefix = t.Prefix,
                              !.Postfix = t.Postfix]
    /\ UNCHANGED <<h, arg>>
    /\ UNCHANGED srvVars

\* TrimInput is applied to what it returned
TrimAgain ==
    /\ pc = "trimmed"
    /\ pc' = "retrimmed"
    /\ LET t == TrimInput([RemoveNS |-> arg.RemoveNS, Prefix |-> res.Prefix,
                           Postfix |-> res.Postfix], arg.attrs, res.raw)
       IN  res' = [res EXCEPT !.raw2 = t.raw, !.Prefix = t.Prefix,
                              !.Postfix = t.Postfix]
    /\ UNCHANGED <<h, arg>>
    /\ UNCHANGED srvVars

NextTrim ==
    \/ TrimOnce
    \/ TrimAgain

SpecTrim == InitTrim /\ [][NextTrim]_vars

\* ======================================================= annotation store
\* at most this many blocks in the WSDL handed to NewSOAPHandler
MaxItems == 3

\* A WSDL token: a start element "S" of local name n in namespace ns with
\* the value name of its name attribute, an end element "E", character
\* data "T" whose text is n, and "X" where the decoder fails.
WTok(k, n, ns, name) == [k |-> k, n |-> n, ns |-> ns, name |-> name]
WStart(n) == WTok("S", n, "", <<>>)
WEnd(n) == WTok("E", n, "", <<>>)

XSD == "http://www.w3.org/2001/XMLSchema"

\* An element name is its base and its suffix: <<"A", "_Input">>.
\* The texts of a documentation element and what json.Decode makes of them:
\*   "jA"   {"A": {"Raw": true}}
\*   "jA2"  {"A": {"RemoveNS": true}}
\*   "jBad" starts with { and is no JSON
\*   "txt"  does not start with {
DocTexts == {"jA", "jA2", "jBad", "txt"}
HasBracePrefix(text) == text \in {"jA", "jA2", "jBad"}
JSONDecode(text) ==
    CASE text = "jA"  -> [err |-> FALSE, m |-> (<<"A">> :> [Raw |-> TRUE, RemoveNS |-> FALSE])]
      [] text = "jA2" -> [err |-> FALSE, m |-> (<<"A">> :> [Raw |-> FALSE, RemoveNS |-> TRUE])]
      [] OTHER        -> [err |-> TRUE, m |-> <<>>]

\* The blocks a WSDL is made of.
\* <documentation>text</documentation>
DocItem(text) ==
    <<WStart("documentation"), WTok("T", text, "", <<>>), WEnd("documentation")>>
\* <element name=..><complexType><sequence><any/></sequence></complexType></element>
AnyItem(name, ns) ==
    <<WTok("S", "element", XSD, name), WStart("complexType"), WStart("sequence"),
      WTok("S", "any", ns, <<>>), WEnd("any"),
      WEnd("sequence"), WEnd("complexType"), WEnd("element")>>
\* the any element one level deeper: element/complexType/sequence/choice/any
DeepItem(name) ==
    <<WTok("S", "element", XSD, name), WStart("complexType"), WStart("sequence"),
      WStart("choice"), WTok("S", "any", XSD, <<>>), WEnd("any"), WEnd("choice"),
      WEnd("sequence"), WEnd("complexType"), WEnd("element")>>
\* a syntax error
BadItem == <<WTok("X", "", "", <<>>)>>

WsdlItems ==
    {DocItem(t) : t \in DocTexts}
        \cup {AnyItem(nm, ns) : nm \in {<<"A", "_Input">>, <<"A", "_Output">>, <<"B", "_Input">>},
                                ns \in {XSD}}
        \cup {AnyItem(<<"A", "_Output">>, ""), AnyItem(<<"A", "_Output">>, "urn:other"),
              DeepItem(<<"A", "_Output">>), BadItem}

RECURSIVE Flatten(_)
Flatten(items) ==
    IF items = <<>> THEN <<>> ELSE Head(items) \o Flatten(Tail(items))

\* the tokens of a WSDL: its blocks inside <definitions>, or bare
WsdlTokens(wsdl) ==
    IF wsdl.bare THEN Flatten(wsdl.items)
    ELSE <<WStart("definitions")>> \o Flatten(wsdl.items) \o <<WEnd("definitions")>>

Wsdls == [items : UNION {[1..n -> WsdlItems] : n \in 0..MaxItems}, bare : BOOLEAN]

\* the xs:any test of NewSOAPHandler: the name attribute of the element
\* three levels up, when the any element is nested in
\* element/complexType/sequence
AnyNames(x, stack) ==
    LET n == Len(stack) IN
    IF /\ x.n = "any"
       /\ x.ns \in {"", XSD}
       /\ n >= 3
       /\ stack[n].n = "sequence"
       /\ stack[n - 1].n = "complexType"
       /\ stack[n - 2].n = "element"
       /\ stack[n - 2].name # <<>>
    THEN {stack[n - 2].name} ELSE {}

\* the documentation test of NewSOAPHandler writing only keys not yet in
\* the store
DocMergeKeepFirst(x, stack, annotations) ==
    IF /\ Len(stack) > 1
       /\ stack[Len(stack)].n = "documentation"
       /\ HasBracePrefix(x.n)
       /\ ~JSONDecode(x.n).err
    THEN annotations @@ JSONDecode(x.n).m
    ELSE annotations

\* the documentation test of NewSOAPHandler: the store after character
\* data x inside the open elements stack
DocMerge(x, stack, annotations) ==
    IF /\ Len(stack) > 1
       /\ stack[Len(stack)].n = "documentation"
       /\ HasBracePrefix(x.n)
       /\ ~JSONDecode(x.n).err
    THEN JSONDecode(x.n).m @@ annotations
    ELSE annotations

\* the token loop of NewSOAPHandler
RECURSIVE WsdlLoop(_, _, _)
WsdlLoop(toks, i, st) ==
    IF i > Len(toks) \/ toks[i].k = "X" THEN st
    ELSE WsdlLoop(toks, i + 1,
            CASE toks[i].k = "S" ->
                   [st EXCEPT !.names = @ \cup AnyNames(toks[i], st.stack),
                              !.stack = Append(@, toks[i])]
              [] toks[i].k = "T" ->
                   [st EXCEPT !.annotations = DocMerge(toks[i], st.stack, @)]
              [] OTHER ->
                   [st EXCEPT !.stack = SubSeq(@, 1, Len(@) - 1)])

\* the pairs: the bases of the recorded names ending in _Input whose
\* _Output name is recorded as well
RawPairsInputOnly(names) ==
    {<<nm[1]>> : nm \in {x \in names : x[2] = "_Input"}}

RawPairs(names) ==
    {<<nm[1]>> : nm \in {x \in names : x[2] = "_Input" /\ <<x[1], "_Output">> \in names}}

\* NewSOAPHandler(config): the handler with the annotation store read from
\* the WSDL; names are the recorded xs:any wrapper names
NewSOAPHandler(config, wsdl) ==
    LET st  == WsdlLoop(WsdlTokens(wsdl), 1,
                        [stack |-> <<>>, names |-> {}, annotations |-> <<>>])
        raw == [k \in RawPairs(st.names) |->
                  IF k \in DOMAIN st.annotations
                  THEN [st.annotations[k] EXCEPT !.Raw = TRUE]
                  ELSE [ZeroAnnotation EXCEPT !.Raw = TRUE]]
    IN  [h |-> [config EXCEPT !.annotations = raw @@ st.annotations],
         names |-> st.names]

\* the actions looked up
LookupActions == {<<"A">>, <<"B">>, <<"ns", "A">>, <<"Zed">>}

NoLookup == [names |-> {}, action |-> <<>>, ann |-> ZeroAnnotation]

InitWsdl ==
    /\ pc = "wsdl"
    /\ h = [MkHandler(FALSE, FALSE, FALSE) EXCEPT !.annotations = <<>>]
    /\ Idle
    /\ arg \in Wsdls
    /\ res = NoLookup

\* NewSOAPHandler builds the handler from the WSDL
Construct ==
    /\ pc = "wsdl"
    /\ pc' = "built"
    /\ h' = NewSOAPHandler(h, arg).h
    /\ res' = [res EXCEPT !.names = NewSOAPHandler(h, arg).names]
    /\ UNCHANGED arg
    /\ UNCHANGED srvVars

\* h.annotation(action) is called
Lookup ==
    /\ pc \in {"built", "looked"}
    /\ pc' = "looked"
    /\ \E a \in LookupActions :
        /\ res' = [res EXCEPT !.action = a, !.ann = annotation(h, a)]
        /\ h' = [h EXCEPT !.annotations = annotationsAfter(h, a)]
    /\ UNCHANGED arg
    /\ UNCHANGED srvVars

NextWsdl ==
    \/ Construct
    \/ Lookup

SpecWsdl == InitWsdl /\ [][NextWsdl]_vars

\* ========================================================== buffer pool
\* at most this many buffers are made by the pool's New
MaxBufs == 3

\* the requests served at the same time
PoolReqs == {1, 2}
PoolBufs == 1..MaxBufs

\* The state of the pool and of the requests using it (in res):
\*   free   the buffers in bufPool
\*   made   how many buffers New has made
\*   by     for each buffer, the request whose bytes its array holds (0: none)
\*   at     where each request stands in serveHTTP
\*   body   the buffer whose bytes the request's r.Body reads (0: none, the
\*          body is the one the client sent)
\*   held   the buffers each request has taken and not put back
\*   read   the request whose bytes DecodeRequest read as the body (0: not
\*          read yet)
\*   failed whether FilterEmptyTags failed on the request's body
\*   kept   the request whose bytes are in the array r.Body still reads
\*          after the buffer has grown into another one (0: r.Body reads
\*          the buffer's array, or the body the client sent)
NewPool ==
    [free |-> {}, made |-> 0, by |-> [b \in PoolBufs |-> 0],
     at |-> [r \in PoolReqs |-> "start"], body |-> [r \in PoolReqs |-> 0],
     held |-> [r \in PoolReqs |-> {}], read |-> [r \in PoolReqs |-> 0],
     failed |-> [r \in PoolReqs |-> FALSE], kept |-> [r \in PoolReqs |-> 0]]

\* bufPool.Get(): a buffer of the pool, or a new one
PoolGet(p) ==
    {[buf |-> b, pool |-> [p EXCEPT !.free = @ \ {b}]] : b \in p.free}
        \cup (IF p.made < MaxBufs
              THEN {[buf |-> p.made + 1, pool |-> [p EXCEPT !.made = @ + 1]]}
              ELSE {})

\* bufPool.Put(b)
PoolPut(p, b) == [p EXCEPT !.free = @ \cup {b}]

\* buf.Reset() and writes by request r: the bytes land in the buffer's
\* array, or in a larger array the buffer grows into (grown), which leaves
\* the old array to the readers that still hold it
PoolWrite(p, b, r, grown) ==
    IF grown
    THEN [p EXCEPT !.by[b] = r,
                   !.kept = [q \in PoolReqs |->
                               IF p.body[q] = b THEN p.by[b] ELSE p.kept[q]],
                   !.body = [q \in PoolReqs |->
                               IF p.body[q] = b THEN 0 ELSE p.body[q]]]
    ELSE [p EXCEPT !.by[b] = r]

InitPool ==
    /\ pc = "pool"
    /\ h = MkHandler(FALSE, FALSE, FALSE)
    /\ Idle
    /\ arg = <<>>
    /\ res = NewPool

\* mayFilterEmptyTags of request r: save and buf are taken from the pool,
\* the body is teed into save and filtered into buf, r.Body is made a
\* reader of buf's bytes (of save's bytes when the filter fails), and both
\* buffers are put back when the function returns
PoolFilter(r) ==
    /\ pc = "pool"
    /\ res.at[r] = "start"
    /\ \E keep \in BOOLEAN, failed \in BOOLEAN, grown \in BOOLEAN, g1 \in PoolGet(res) :
        \E g2 \in PoolGet(g1.pool) :
            LET p2 == PoolWrite(PoolWrite(g2.pool, g1.buf, r, grown), g2.buf, r, grown)
                p3 == PoolPut(PoolPut(p2, g2.buf), g1.buf)
            IN  res' = IF keep
                       THEN [res EXCEPT !.at[r] = "filtered"]
                       ELSE [p3 EXCEPT !.at[r] = "filtered",
                                       !.failed[r] = failed,
                                       !.body[r] = IF failed THEN g1.buf ELSE g2.buf]
    /\ UNCHANGED <<pc, h, arg>>
    /\ UNCHANGED srvVars

\* DecodeRequest of request r: MakeSectionReader reads r.Body
PoolDecode(r) ==
    /\ pc = "pool"
    /\ res.at[r] = "filtered"
    /\ res' = [res EXCEPT !.at[r] = "decoded",
                          !.read[r] = IF res.kept[r] # 0 THEN res.kept[r]
                                      ELSE IF res.body[r] = 0 THEN r
                                      ELSE res.by[res.body[r]]]
    /\ UNCHANGED <<pc, h, arg>>
    /\ UNCHANGED srvVars

\* serveHTTP of request r takes a buffer for the JSON form of the input
PoolLogInput(r) ==
    /\ pc = "pool"
    /\ res.at[r] = "decoded"
    /\ \E g \in PoolGet(res), grown \in BOOLEAN :
        res' = [PoolWrite(g.pool, g.buf, r, grown)
                   EXCEPT !.at[r] = "called", !.held[r] = @ \cup {g.buf}]
    /\ UNCHANGED <<pc, h, arg>>
    /\ UNCHANGED srvVars

\* encodeResponse of request r takes a buffer for the encoded messages
PoolEncode(r) ==
    /\ pc = "pool"
    /\ res.at[r] = "called"
    /\ \E g \in PoolGet(res), grown \in BOOLEAN :
        res' = [PoolWrite(g.pool, g.buf, r, grown)
                   EXCEPT !.at[r] = "encoded", !.held[r] = @ \cup {g.buf}]
    /\ UNCHANGED <<pc, h, arg>>
    /\ UNCHANGED srvVars

\* encodeResponse and serveHTTP of request r return: the deferred Puts run
PoolReturn(r) ==
    /\ pc = "pool"
    /\ res.at[r] \in {"called", "encoded"}
    /\ res' = [res EXCEPT !.at[r] = "done", !.held[r] = {},
                          !.free = @ \cup res.held[r]]
    /\ UNCHANGED <<pc, h, arg>>
    /\ UNCHANGED srvVars

NextPool ==
    \/ \E r \in PoolReqs : PoolFilter(r)
    \/ \E r \in PoolReqs : PoolDecode(r)
    \/ \E r \in PoolReqs : PoolLogInput(r)
    \/ \E r \in PoolReqs : PoolEncode(r)
    \/ \E r \in PoolReqs : PoolReturn(r)

SpecPool == InitPool /\ [][NextPool]_vars

\* ================================================================ FindBody
MaxFind == 4

\* The element names of the documents searched, with the namespace and the
\* local name the decoder resolves them to.
soapEnvelopeURI == "http://schemas.xmlsoap.org/soap/envelope/"
QNames ==
    [n \in {"soap:Envelope", "soap:Header", "soap:Body", "body", "o:Body",
            "Login", "P"} |->
        IF n = "soap:Envelope" THEN [Space |-> soapEnvelopeURI, Local |-> "Envelope"]
        ELSE IF n = "soap:Header" THEN [Space |-> soapEnvelopeURI, Local |-> "Header"]
        ELSE IF n = "soap:Body" THEN [Space |-> soapEnvelopeURI, Local |-> "Body"]
        ELSE IF n = "o:Body" THEN [Space |-> "urn:other", Local |-> "Body"]
        ELSE [Space |-> "", Local |-> n]]

\* strings.EqualFold(local, "body")
EqualFoldBody(local) == local \in {"body", "Body", "BODY"}

\* the namespaces findSoapElt accepts
SoapSpaces ==
    {"", "SOAP-ENV", "soapenv", "http://www.w3.org/2003/05/soap-envelope/",
     soapEnvelopeURI}

IsSoapBody(n) ==
    EqualFoldBody(QNames[n].Local) /\ QNames[n].Space \in SoapSpaces

\* findSoapBody(dec): tokens are read up to the first start element that is
\* a SOAP Body; err when Token fails first
RECURSIVE findSoapBody(_, _)
findSoapBody(doc, dec) ==
    IF dec.dead \/ dec.pos >= Len(doc)
    THEN [err |-> TRUE, st |-> "", dec |-> [dec EXCEPT !.dead = TRUE]]
    ELSE LET t == doc[dec.pos + 1] IN
         IF t.k = "S"
         THEN LET d1 == [dec EXCEPT !.pos = @ + 1, !.stack = Append(@, t.n)]
              IN  IF IsSoapBody(t.n) THEN [err |-> FALSE, st |-> t.n, dec |-> d1]
                  ELSE findSoapBody(doc, d1)
         ELSE IF t.k = "E"
         THEN IF dec.stack # <<>> /\ Last(dec.stack) = t.n
              THEN findSoapBody(doc, [dec EXCEPT !.pos = @ + 1,
                                        !.stack = SubSeq(@, 1, Len(@) - 1)])
              ELSE [err |-> TRUE, st |-> "",
                    dec |-> [dec EXCEPT !.pos = @ + 1, !.dead = TRUE]]
         ELSE findSoapBody(doc, [dec EXCEPT !.pos = @ + 1])

\* FindBody returning the first start element of the document
FindBodyFirstStart(doc, dec) == nextStart(doc, dec)

FindBody(doc, dec) ==
    LET b == findSoapBody(doc, dec)
    IN  IF b.err THEN b ELSE nextStart(doc, b.dec)

\* dec.DecodeElement(v, &st) with the decoder after the start tag st: the
\* tokens up to the end tag of st are consumed; fields are the child
\* elements of st, in order, that are decoded into v
RECURSIVE DecodeElement(_, _, _, _)
DecodeElement(doc, dec, depth, fields) ==
    IF dec.dead \/ dec.pos >= Len(doc)
    THEN [err |-> TRUE, fields |-> fields, dec |-> [dec EXCEPT !.dead = TRUE]]
    ELSE LET t == doc[dec.pos + 1] IN
         IF t.k = "S"
         THEN DecodeElement(doc,
                  [dec EXCEPT !.pos = @ + 1, !.stack = Append(@, t.n)],
                  depth + 1,
                  IF depth = 0 THEN Append(fields, t.n) ELSE fields)
         ELSE IF t.k = "E"
         THEN IF dec.stack # <<>> /\ Last(dec.stack) = t.n
              THEN LET d1 == [dec EXCEPT !.pos = @ + 1,
                                         !.stack = SubSeq(@, 1, Len(@) - 1)]
                   IN  IF depth = 0
                       THEN [err |-> FALSE, fields |-> fields, dec |-> d1]
                       ELSE DecodeElement(doc, d1, depth - 1, fields)
              ELSE [err |-> TRUE, fields |-> fields,
                    dec |-> [dec EXCEPT !.pos = @ + 1, !.dead = TRUE]]
         ELSE DecodeElement(doc, [dec EXCEPT !.pos = @ + 1], depth, fields)

\* The documents searched: every short token sequence, and envelopes with
\* or without a header, a payload and the closing tags.
FindAlphabet ==
    {Tok("S", n) : n \in {"soap:Body", "Login", "o:Body", "body"}}
        \cup {Tok("E", n) : n \in {"soap:Body", "Login", "o:Body"}}
        \cup {Tok("T", "t")}
Payloads ==
    {<<>>, <<Tok("T", "t")>>,
     <<Tok("S", "Login"), Tok("E", "Login")>>,
     <<Tok("T", "t"), Tok("S", "Login"), Tok("S", "P"), Tok("T", "t"),
       Tok("E", "P"), Tok("E", "Login")>>,
     <<Tok("S", "Login"), Tok("S", "P"), Tok("T", "t"), Tok("E", "P"),
       Tok("S", "P"), Tok("S", "P"), Tok("E", "P"), Tok("E", "P"),
       Tok("E", "Login")>>,
     <<Tok("S", "Login"), Tok("E", "P")>>,
     <<Tok("S", "Login"), Tok("S", "P"), Tok("T", "t")>>}
Headers ==
    {<<>>, <<Tok("T", "t")>>,
     <<Tok("S", "soap:Header"), Tok("E", "soap:Header")>>,
     <<Tok("S", "soap:Header"), Tok("S", "P"), Tok("E", "P"),
       Tok("E", "soap:Header")>>}
Closers ==
    {<<>>, <<Tok("E", "soap:Body")>>,
     <<Tok("E", "soap:Body"), Tok("E", "soap:Envelope")>>}
FindDocs ==
    UNION {[1..n -> FindAlphabet] : n \in 0..MaxFind}
        \cup {<<Tok("S", "soap:Envelope")>> \o hd \o <<Tok("S", bd)>> \o pl \o cl :
                hd \in Headers, bd \in {"soap:Body", "o:Body"},
                pl \in Payloads, cl \in Closers}

NoFind == [err |-> FALSE, st |-> "", dec |-> NewDecoder, decoded |-> FALSE,
           decErr |-> FALSE, fields |-> <<>>]

InitFind ==
    /\ pc = "find"
    /\ h = MkHandler(FALSE, FALSE, FALSE)
    /\ Idle
    /\ arg \in FindDocs
    /\ res = NoFind

\* FindBody(xml.NewDecoder(doc))
Find ==
    /\ pc = "find"
    /\ pc' = "found"
    /\ LET r == FindBody(arg, NewDecoder)
       IN  res' = [res EXCEPT !.err = r.err, !.st = r.st, !.dec = r.dec]
    /\ UNCHANGED <<h, arg>>
    /\ UNCHANGED srvVars

\* dec.DecodeElement(&inp, &st) after a FindBody that found an element
Decode ==
    /\ pc = "found"
    /\ ~res.err
    /\ pc' = "decoded"
    /\ LET r == DecodeElement(arg, res.dec, 0, <<>>)
       IN  res' = [res EXCEPT !.decoded = TRUE, !.decErr = r.err,
                              !.fields = r.fields, !.dec = r.dec]
    /\ UNCHANGED <<h, arg>>
    /\ UNCHANGED srvVars

NextFind ==
    \/ Find
    \/ Decode

SpecFind == InitFind /\ [][NextFind]_vars

\* ================================================= outbound retrying client
\* Times are in milliseconds.
RetryDelay == 100
RetryMaxDelay == 5000
RetryMaxDuration == 30000
RetryFactor == 2
OneSecond == 1000

\* no deadline on the caller's context
NoDeadline == 0
\* what time.Until(dl) is when the call starts
Deadlines == {NoDeadline, 500, 1000, 1001, 10000, 30000, 30001, 40000}
\* how long a round trip takes
DoDurations == {0, 3000}
\* the status of an HTTP response
ResponseStatuses == {200, 404, 500}

\* retryStrategy.MaxDuration with the threshold at the default budget
EffectiveMaxDurationOverBudget(deadline) ==
    IF deadline # NoDeadline /\ deadline > RetryMaxDuration
    THEN deadline ELSE RetryMaxDuration

\* retryStrategy.MaxDuration after the deadline test of
\* SOAPCallWithHeaderClient
EffectiveMaxDuration(deadline) ==
    IF deadline # NoDeadline /\ deadline > OneSecond
    THEN deadline ELSE RetryMaxDuration

\* the delay before the n-th call of iter.Next lets the loop go on: none
\* before the first, then Delay growing by Factor up to MaxDelay
RECURSIVE DelayOf(_)
DelayOf(n) ==
    IF n <= 1 THEN 0
    ELSE IF n = 2 THEN RetryDelay
    ELSE IF DelayOf(n - 1) * RetryFactor > RetryMaxDelay THEN RetryMaxDelay
    ELSE DelayOf(n - 1) * RetryFactor

\* the loop retrying on a response with a server error as well
TryAgainOnServerError(err, status) == err \/ status >= 500

\* the loop of SOAPCallWithHeaderClient goes to iter.Next after client.Do:
\* only when client.Do returned an error
TryAgain(err, status) == err

\* An http.Client: nil is the nil pointer (http.DefaultClient is used),
\* transport the chain of its Transport: <<>> for nil, else the round
\* trippers from the outermost to the innermost.
ClientsGiven ==
    {[nil |-> TRUE, transport |-> <<>>], [nil |-> FALSE, transport |-> <<>>],
     [nil |-> FALSE, transport |-> <<"custom">>]}

\* the client after the set-up of SOAPCallWithHeaderClient: a nil Transport
\* becomes http.DefaultTransport, and client.Transport is assigned
\* gzhttp.Transport of what it was
ClientSetup(c) ==
    [c EXCEPT !.transport =
        <<"gzhttp">> \o (IF @ = <<>> THEN <<"DefaultTransport">> ELSE @)]

NoCall ==
    [at |-> "idle", client |-> [nil |-> FALSE, transport |-> <<>>],
     maxDuration |-> 0, elapsed |-> 0, tries |-> <<>>, nexts |-> 0,
     result |-> "none", body |-> "none"]

InitClient ==
    /\ pc = "client"
    /\ h = MkHandler(FALSE, FALSE, FALSE)
    /\ Idle
    /\ arg \in [client : ClientsGiven, deadline : Deadlines]
    /\ res = [NoCall EXCEPT !.client = arg.client]

\* the context's deadline has passed
CtxDone == arg.deadline # NoDeadline /\ res.elapsed >= arg.deadline

\* SOAPCallWithHeaderClient up to the retry loop
ClientStart ==
    /\ pc = "client"
    /\ res.at = "idle"
    /\ res' = [res EXCEPT !.at = "try",
                          !.client = ClientSetup(arg.client),
                          !.maxDuration = EffectiveMaxDuration(arg.deadline)]
    /\ UNCHANGED <<pc, h, arg>>
    /\ UNCHANGED srvVars

\* http.NewRequest fails: the call returns the error
ClientBadRequest ==
    /\ pc = "client"
    /\ res.at = "try"
    /\ res.tries = <<>>
    /\ res' = [res EXCEPT !.at = "done", !.result = "request error"]
    /\ UNCHANGED <<pc, h, arg>>
    /\ UNCHANGED srvVars

\* client.Do returns an error: the loop goes to iter.Next.  A round trip
\* that would outlast the deadline fails when the deadline passes.
ClientDoFail ==
    /\ pc = "client"
    /\ res.at = "try"
    /\ \E dur \in DoDurations :
        LET late == arg.deadline # NoDeadline /\ res.elapsed + dur > arg.deadline
        IN  res' = [res EXCEPT
                !.at = IF TryAgain(TRUE, 0) THEN "next" ELSE "response",
                !.tries = Append(@, 0),
                !.elapsed = IF late THEN arg.deadline ELSE @ + dur]
    /\ UNCHANGED <<pc, h, arg>>
    /\ UNCHANGED srvVars

\* client.Do returns a response
ClientDoResponse ==
    /\ pc = "client"
    /\ res.at = "try"
    /\ \E dur \in DoDurations, status \in ResponseStatuses :
        /\ ~(arg.deadline # NoDeadline /\ res.elapsed + dur > arg.deadline)
        /\ res' = [res EXCEPT
                !.at = IF TryAgain(FALSE, status) THEN "next" ELSE "response",
                !.tries = Append(@, status),
                !.elapsed = @ + dur]
    /\ UNCHANGED <<pc, h, arg>>
    /\ UNCHANGED srvVars

\* iter.Next letting the loop go on whatever the total duration
ClientNextNoBudget ==
    /\ pc = "client"
    /\ res.at = "next"
    /\ ~CtxDone
    /\ res' = [res EXCEPT !.at = "try", !.nexts = @ + 1,
                          !.elapsed = @ + DelayOf(res.nexts + 1)]
    /\ UNCHANGED <<pc, h, arg>>
    /\ UNCHANGED srvVars

\* iter.Next(ctx.Done()) lets the loop go on after the delay
ClientNext ==
    /\ pc = "client"
    /\ res.at = "next"
    /\ ~CtxDone
    /\ res.elapsed + DelayOf(res.nexts + 1) <= res.maxDuration
    /\ arg.deadline # NoDeadline => res.elapsed + DelayOf(res.nexts + 1) < arg.deadline
    /\ res' = [res EXCEPT !.at = "try", !.nexts = @ + 1,
                          !.elapsed = @ + DelayOf(res.nexts + 1)]
    /\ UNCHANGED <<pc, h, arg>>
    /\ UNCHANGED srvVars

\* iter.Next(ctx.Done()) returns false: the total duration is used up or
\* the context is done; the call returns the last error
ClientGiveUp ==
    /\ pc = "client"
    /\ res.at = "next"
    /\ \/ CtxDone
       \/ res.elapsed + DelayOf(res.nexts + 1) > res.maxDuration
       \/ arg.deadline # NoDeadline /\ res.elapsed + DelayOf(res.nexts + 1) >= arg.deadline
    /\ res' = [res EXCEPT !.at = "done", !.result = "transport error"]
    /\ UNCHANGED <<pc, h, arg>>
    /\ UNCHANGED srvVars

\* the response is handled: a status >= 400 is returned as an error with
\* the response body, else the body is decoded
ClientResponse ==
    /\ pc = "client"
    /\ res.at = "response"
    /\ IF Last(res.tries) >= StatusBadRequest
       THEN res' = [res EXCEPT !.at = "done", !.result = "status error",
                               !.body = "full"]
       ELSE \E r \in {"ok", "read error", "FindBody error", "decode error"} :
               res' = [res EXCEPT !.at = "done", !.result = r]
    /\ UNCHANGED <<pc, h, arg>>
    /\ UNCHANGED srvVars

NextClient ==
    \/ ClientStart
    \/ ClientBadRequest
    \/ ClientDoFail
    \/ ClientDoResponse
    \/ ClientNext
    \/ ClientGiveUp
    \/ ClientResponse

SpecClient == InitClient /\ [][NextClient]_vars

\* the call goes on: no step of the loop blocks for ever
SpecClientLive == SpecClient /\ WF_vars(NextClient)

\* ================================================================ claims
Finished == pc \in {"done", "panicked"}

Kinds(body, k) == SelectSeq(body, LAMBDA it : it.k = k)

HasFault(body) == Kinds(body, "Fault") # <<>>

Idx(n) == [i \in 1..n |-> i]

\* the indices of the Recv calls that returned a message
RecvIdx == SelectSeq(Idx(Len(recvLog)), LAMBDA m : recvLog[m].err.nil)

\* the messages encoded whole into the body, in body order
MsgIdx(body) == [k \in 1..Len(Kinds(body, "Msg")) |-> Kinds(body, "Msg")[k].m]

\* C1: in the no-merge path every message Recv returned is encoded into the
\* body exactly once, in arrival order (no encode failure made to happen)
C1_NoMergeEncodesEveryMessage ==
    (pc = "done" /\ path = "nomerge" /\ ioFaults = 0)
        => MsgIdx(w.body) = RecvIdx

\* the elements of field f the first n Recv results carry, in arrival order
RECURSIVE ElemsUpTo(_, _)
ElemsUpTo(f, n) ==
    IF n = 0 THEN <<>>
    ELSE ElemsUpTo(f, n - 1) \o
         (IF recvLog[n].err.nil /\ recvLog[n].msg[f] > 0
          THEN [i \in 1..recvLog[n].msg[f] |-> Item("Elem", n, f, i)]
          ELSE <<>>)

ElemsOf(body, f) == SelectSeq(body, LAMBDA it : it.k = "Elem" /\ it.f = f)

PosIn(seq, x) == CHOOSE k \in 1..Len(seq) : seq[k] = x

Seen(f) == \E m \in 1..Len(recvLog) : recvLog[m].err.nil /\ recvLog[m].msg[f] # Absent

FirstSeen(f) ==
    LET m == CHOOSE n \in 1..Len(recvLog) :
                 /\ recvLog[n].err.nil /\ recvLog[n].msg[f] # Absent
                 /\ \A k \in 1..(n - 1) : ~(recvLog[k].err.nil /\ recvLog[k].msg[f] # Absent)
    IN  m * (Len(StructOrder) + 1) + PosIn(StructOrder, f)

C4_SpillBuffersClosed ==
    (Finished /\ path = "merge")
        => /\ files = {}
           /\ \A f \in FieldNames : temp[f].created => temp[f].closed

C4_Witness ==
    /\ pc = "done" /\ path = "merge" /\ ioFaults > 0
    /\ ~recvLog[Len(recvLog)].err.eof
    /\ \E f \in FieldNames : temp[f].created /\ temp[f].closed

\* C5: a response to a call that reached the backend holds exactly one
\* envelope opening and one Body/Envelope closing, the closing written last
C5_OneEnvelope ==
    (Finished /\ calls > 0 /\ w.body # <<>>)
        => /\ Len(Kinds(w.body, "EnvHeader")) = 1
           /\ Len(Kinds(w.body, "Footer")) = 1
           /\ w.body[1] = Tag("EnvHeader")
           /\ w.body[Len(w.body)] = Tag("Footer")

C5_Witness ==
    /\ pc = "done" /\ calls > 0 /\ path = "fault"
    /\ recvLog[1].err.nil
    /\ HasFault(w.body)

\* the status the fault mapper computes for a fault: soapError's 401, else
\* the status of encodeSoapFault
MapperStatus(err, viaSoapError) ==
    IF viaSoapError /\ Unauthorized(err) THEN StatusUnauthorized
    ELSE w.hdr[Len(w.hdr)]

\* C6: a response whose body carries a Fault is sent with the status the
\* fault mapper computed, for a failed Call and for a failed Recv alike
C6_FaultSentWithMappedStatus ==
    (pc = "done" /\ HasFault(w.body))
        => w.status = MapperStatus(faultLog[Len(faultLog)], path # "fault")

\* C7: when the first Recv fails the body holds a Fault for that error and
\* no message content, and the encoder stops after closing the envelope
C7_FirstRecvFailureOnlyFault ==
    (recvLog # <<>> /\ ~recvLog[1].err.nil)
        => /\ Finished
           /\ Len(recvLog) = 2
           /\ Kinds(w.body, "Fault") = <<FaultItem(recvLog[1].err)>>
           /\ \A k \in 1..Len(w.body) :
                  w.body[k].k \in {"EnvHeader", "Header", "BodyOpen", "Fault", "Footer"}
           /\ w.body[Len(w.body)] = Tag("Footer")

C7_Witness ==
    /\ pc = "done" /\ path = "fault"
    /\ ~recvLog[1].err.nil
    /\ ~recvLog[2].err.nil /\ recvLog[2].err # recvLog[1].err
    /\ HasFault(w.body)

\* C8: the status encodeSoapFault hands to WriteHeader is the error's
\* Code() if it has one, else 424 for a cancellation, else 504 for a
\* deadline exceeded, else 500
C8_FaultStatusPrecedence ==
    faultLog # <<>>
        => LET e == faultLog[Len(faultLog)]
               c == w.hdr[Len(w.hdr)]
           IN  /\ e.code # 0 => c = e.code
               /\ (e.code = 0 /\ e.canceled) => c = 424
               /\ (e.code = 0 /\ ~e.canceled /\ e.deadline) => c = 504
               /\ (e.code = 0 /\ ~e.canceled /\ ~e.deadline) => c = 500

C8_Witness ==
    /\ pc = "done"
    /\ faultLog = <<ErrCodeCancel>>
    /\ w.hdr = <<404>>

\* C9 as claimed: a backend error exposing Code() int = 7 is answered with
\* status 401 and a Fault
C9_Code7Gives401 ==
    (Finished /\ ~callErr.nil /\ callErr.code = 7)
        => (w.status = StatusUnauthorized /\ HasFault(w.body))

\* C9 amended: a backend error whose unwrapped cause is a gRPC status
\* PermissionDenied is answered with status 401 and a Fault
C9_PermissionDeniedGives401 ==
    (Finished /\ ~callErr.nil /\ callErr.grpc = "PermissionDenied")
        => (pc = "done" /\ w.status = StatusUnauthorized /\ HasFault(w.body))

C9_Witness ==
    /\ pc = "done"
    /\ callErr = ErrPerm7
    /\ w.status = StatusUnauthorized
    /\ w.hdr = <<401, 7>>

\* C10: a DecodeError is answered with status 400 and a Fault, and the
\* backend is not called
C10_DecodeErrorIs400 ==
    (Finished /\ decErr.decode)
        => (w.status = StatusBadRequest /\ HasFault(w.body) /\ calls = 0)

\* the requests DecodeRequest is handed: every method but GET
Posts == {r \in Requests : r.method # "GET"}

\* C11: a request without a SOAP Body start element (or whose stream ends
\* or fails before one is found) makes DecodeRequest fail with the
\* findSoapBody error; that error is answered with status 400 and no Fault,
\* and the backend is not called
C11_NoBodyIs400 ==
    /\ pc = "start"
          => \A r \in Posts :
                (~r.sectionErr /\ ~r.bodyFound)
                    <=> DecodeRequest(h, r).err = ErrFindBody
    /\ (Finished /\ decErr = ErrFindBody)
          => /\ pc = "done"
             /\ w.status = StatusBadRequest
             /\ ~HasFault(w.body)
             /\ calls = 0

C11_Witness ==
    /\ pc = "done"
    /\ decErr = ErrFindBody
    /\ w.status = StatusBadRequest
    /\ w.body = <<Tag("Text")>>
    /\ calls = 0

\* C12: when no input type is registered for the resolved action, in raw
\* mode as in standard mode, the request ends with status 400 and the
\* backend is not called
C12_NoInputIs400 ==
    (/\ Finished
     /\ \/ decErr = ErrNotFound
        \/ decErr.nil /\ request.Raw /\ Input(h, request.Action).nil)
        => (pc = "done" /\ w.status = StatusBadRequest /\ calls = 0)

\* C13: a failure of the DecodeHeader hook does not fail the request: the
\* backend is called
C13_HeaderFailureNeverFailsRequest ==
    (Finished /\ decErr = ErrDecodeHeader) => calls > 0

\* C14: FilterEmptyTags is idempotent: for a well-formed document,
\* filtering the filter's output again yields that same output
C14_FilterIdempotent ==
    (pc = "refiltered" /\ ~res.err) => res.out2 = res.out

InSeq(x, sq) == \E k \in 1..Len(sq) : sq[k] = x

\* C15: FilterEmptyTags removes no character data: the character-data
\* tokens of a well-formed document are all in the output, in their order,
\* and so are the start and the end tag of every element that holds
\* character data, directly or in a descendant
C15_FilterKeepsCharData ==
    (pc = "filtered" /\ ~res.err)
        => /\ SelectSeq(res.idx, LAMBDA i : arg[i].k = "T")
                = SelectSeq(Idx(Len(arg)), LAMBDA i : arg[i].k = "T")
           /\ \A i \in 1..Len(arg) :
                (/\ arg[i].k = "S"
                 /\ \E t \in (i + 1)..(MatchEnd(arg, i + 1, 0) - 1) : arg[t].k = "T")
                    => (InSeq(i, res.idx) /\ InSeq(MatchEnd(arg, i + 1, 0), res.idx))

C15_Witness ==
    /\ pc = "filtered"
    /\ arg = <<Tok("S", "a"), Tok("S", "b"), Tok("T", "t"), Tok("E", "b"), Tok("E", "a")>>
    /\ res.out = arg

C17_TrimInputIdempotent ==
    pc = "retrimmed" => res.raw2 = res.raw

\* the WSDL is well-formed and has a root element
WellFormedWsdl ==
    /\ ~arg.bare
    /\ \A i \in 1..Len(arg.items) : arg.items[i] # BadItem

\* the actions the JSON maps of the WSDL's documentation blocks hold
DocKeys ==
    UNION {DOMAIN JSONDecode(t).m :
             t \in {x \in DocTexts : \E i \in 1..Len(arg.items) : arg.items[i] = DocItem(x)}}

\* an xs:any element nested exactly in element/complexType/sequence names nm
NamedBy(nm) ==
    \E i \in 1..Len(arg.items) : arg.items[i] \in {AnyItem(nm, XSD), AnyItem(nm, "")}

\* the actions of which the xs:any wrappers name both _Input and _Output
PairKeys ==
    {<<x>> : x \in {y \in {"A", "B"} : NamedBy(<<y, "_Input">>) /\ NamedBy(<<y, "_Output">>)}}

\* C18 as claimed: with a documentation block {"A": {"Raw": true}} in the
\* WSDL annotation("A").Raw is true; an action in no documentation block
\* and in no xs:any pair gets the zero annotation
C18_DocBlockSetsRaw ==
    pc = "looked"
        => /\ (/\ WellFormedWsdl
               /\ \E i \in 1..Len(arg.items) : arg.items[i] = DocItem("jA")
               /\ res.action = <<"A">>)
                => res.ann.Raw
           /\ res.action \notin (DocKeys \cup PairKeys) => res.ann = ZeroAnnotation

\* C18 amended: with a documentation block {"A": {"Raw": true}} that no
\* later documentation block mapping A follows, annotation("A").Raw is
\* true; an action such that neither it nor its part after the last "/" is
\* in a documentation block or an xs:any pair gets the zero annotation
C18_LastDocBlockSetsRaw ==
    pc = "looked"
        => /\ (/\ WellFormedWsdl
               /\ \E i \in 1..Len(arg.items) :
                    /\ arg.items[i] = DocItem("jA")
                    /\ \A j \in (i + 1)..Len(arg.items) : arg.items[j] # DocItem("jA2")
               /\ res.action = <<"A">>)
                => res.ann.Raw
           /\ (/\ res.action \notin (DocKeys \cup PairKeys)
               /\ <<Last(res.action)>> \notin (DocKeys \cup PairKeys))
                => res.ann = ZeroAnnotation

C18_Witness ==
    /\ pc = "looked"
    /\ arg = [items |-> <<DocItem("jA2"), DocItem("jA")>>, bare |-> FALSE]
    /\ res.action = <<"A">>
    /\ res.ann = [Raw |-> TRUE, RemoveNS |-> FALSE]

\* the handler NewSOAPHandler builds from the documentation blocks alone
DocOnly ==
    NewSOAPHandler(h, [arg EXCEPT !.items =
        SelectSeq(arg.items, LAMBDA it : it \in {DocItem(t) : t \in DocTexts})]).h

\* C19: when xs:any elements nested exactly in element/complexType/sequence
\* name both X_Input and X_Output, annotation("X").Raw is true; when only
\* one of the two names is recorded, the pair does not set Raw: Raw is
\* what the documentation blocks say
C19_AnyPairSetsRaw ==
    (pc = "looked" /\ WellFormedWsdl)
        => /\ res.names = {nm \in {<<"A", "_Input">>, <<"A", "_Output">>, <<"B", "_Input">>} :
                             NamedBy(nm)}
           /\ res.action \in PairKeys => res.ann.Raw
           /\ (res.action \in {<<"A">>, <<"B">>} /\ res.action \notin PairKeys)
                => res.ann.Raw = annotation(DocOnly, res.action).Raw

C19_Witness ==
    /\ pc = "looked"
    /\ arg = [items |-> <<AnyItem(<<"A", "_Output">>, ""), DocItem("jA2"),
                          AnyItem(<<"A", "_Input">>, XSD)>>,
              bare |-> FALSE]
    /\ res.action = <<"A">>
    /\ res.ann = [Raw |-> TRUE, RemoveNS |-> TRUE]

C21_NoForeignBytesRead ==
    pc = "pool" => \A r \in PoolReqs : res.read[r] \in {0, r}

\* C22: SOAPCallWithHeaderClient makes another attempt only after a round
\* trip that failed: every attempt but the last returned no response, and
\* a response with status >= 400 ends the call with an error carrying the
\* whole response body
C22_RetryOnlyTransportFailures ==
    pc = "client"
        => /\ \A i \in 1..(Len(res.tries) - 1) : res.tries[i] = 0
           /\ (res.at = "done" /\ res.tries # <<>> /\ Last(res.tries) >= 400)
                => (res.result = "status error" /\ res.body = "full")
           /\ res.nexts <= Len(res.tries)

C22_Witness ==
    /\ pc = "client"
    /\ res.at = "done"
    /\ res.tries = <<0, 0, 500>>
    /\ res.nexts = 2
    /\ res.result = "status error"

\* the attempts all start within the total retry duration
AttemptsWithin(budget) ==
    (res.at = "try" /\ res.tries # <<>>) => res.elapsed <= budget

\* C23 as claimed: the caller's deadline replaces the default total retry
\* duration only if its remaining duration exceeds the default (30 s);
\* else the default is used
C23_DeadlineOverBudgetReplaces ==
    (pc = "client" /\ res.at # "idle")
        => res.maxDuration =
              IF arg.deadline # NoDeadline /\ arg.deadline > 30000
              THEN arg.deadline ELSE 30000

\* C23 amended: the caller's deadline replaces the default total retry
\* duration if its remaining duration exceeds one second; with a shorter
\* remaining duration, or no deadline, the default (30 s) is used
C23_DeadlineOverSecondReplaces ==
    (pc = "client" /\ res.at # "idle")
        => /\ res.maxDuration =
                IF arg.deadline # NoDeadline /\ arg.deadline > 1000
                THEN arg.deadline ELSE 30000
           /\ AttemptsWithin(res.maxDuration)

C23_Witness ==
    /\ pc = "client"
    /\ arg.deadline = 10000
    /\ res.maxDuration = 10000
    /\ res.at = "done"
    /\ res.result = "transport error"
    /\ Len(res.tries) > 2

\* C24: a call leaves the http.Client it was given, and its Transport, as
\* they were before the call
C24_ClientLeftUnchanged ==
    (pc = "client" /\ res.at = "done") => res.client = arg.client

\* the steps of encodeResponse
Encoding == pc \in {"encode", "nomerge", "merge", "drain"} \/ recvLog # <<>>

\* C25: a request that is not a GET is decoded, then the backend is
\* called, then the response is encoded, in that order: the backend is
\* called at most once and only after DecodeRequest succeeded, the
\* response is encoded only after Call returned without error; a GET
\* decodes nothing and does not call the backend
C25_DecodeCallEncodeInOrder ==
    /\ calls <= 1
    /\ pc = "call" => (calls = 0 /\ decErr.nil /\ ~Encoding)
    /\ calls = 1 => (decErr.nil /\ pc # "start")
    /\ ~decErr.nil => (calls = 0 /\ ~Encoding)
    /\ Encoding => (calls = 1 /\ callErr.nil /\ decErr.nil)
    /\ ~callErr.nil => (calls = 1 /\ ~Encoding /\ Finished)
    /\ Kinds(w.body, "WSDL") # <<>>
          => (calls = 0 /\ ~Encoding /\ request = ZeroRequestInfo /\ decErr.nil)

C25_Witness ==
    /\ pc = "done"
    /\ calls = 1
    /\ callErr.nil
    /\ Len(recvLog) = MaxMsgs + 1
    /\ Kinds(w.body, "Msg") # <<>>

\* the index of the first SOAP Body start tag of doc, 0 when there is none
RECURSIVE BodyAt(_, _)
BodyAt(doc, i) ==
    IF i > Len(doc) THEN 0
    ELSE IF doc[i].k = "S" /\ IsSoapBody(doc[i].n) THEN i
    ELSE BodyAt(doc, i + 1)

\* the index of the first start or end tag of doc after index i, 0 when
\* there is none
RECURSIVE TagAfter(_, _)
TagAfter(doc, i) ==
    IF i >= Len(doc) THEN 0
    ELSE IF doc[i + 1].k \in {"S", "E"} THEN i + 1
    ELSE TagAfter(doc, i + 1)

\* the child elements of the element whose start tag is at index j of the
\* well-formed document doc
ChildrenOf(doc, j) ==
    LET e == MatchEnd(doc, j + 1, 0)
    IN  [k \in 1..Len(SelectSeq(Idx(Len(doc)),
                 LAMBDA i : /\ i > j /\ i < e /\ doc[i].k = "S"
                            /\ MatchEnd(doc, i + 1, 0) < e
                            /\ \A m \in (j + 1)..(i - 1) :
                                  doc[m].k = "S" => MatchEnd(doc, m + 1, 0) < i)) |->
           doc[SelectSeq(Idx(Len(doc)),
                 LAMBDA i : /\ i > j /\ i < e /\ doc[i].k = "S"
                            /\ MatchEnd(doc, i + 1, 0) < e
                            /\ \A m \in (j + 1)..(i - 1) :
                                  doc[m].k = "S" => MatchEnd(doc, m + 1, 0) < i)[k]].n]

\* C26: FindBody returns the first start element after the SOAP Body start
\* tag and leaves the decoder inside that element, so that DecodeElement
\* decodes its children; it returns an error when the document ends or an
\* element closes before such a start element
C26_FindBodyFirstElementInBody ==
    pc \in {"found", "decoded"} =>
        LET b     == BodyAt(arg, 1)
            j     == IF b = 0 THEN 0 ELSE TagAfter(arg, b)
            read  == Scan(arg, 1, <<>>)
            found == j # 0 /\ j <= read.n /\ arg[j].k = "S"
        IN  /\ res.err <=> ~found
            /\ found => res.st = arg[j].n
            /\ (found /\ pc = "found")
                  => (res.dec.pos = j /\ Last(res.dec.stack) = res.st)
            /\ (found /\ pc = "decoded" /\ ~read.err)
                  => (~res.decErr /\ res.fields = ChildrenOf(arg, j))

C26_Witness ==
    /\ pc = "decoded"
    /\ arg[1] = Tok("S", "soap:Envelope")
    /\ arg[2] = Tok("S", "soap:Header")
    /\ Scan(arg, 1, <<>>) = [n |-> Len(arg), err |-> FALSE]
    /\ res.st = "Login"
    /\ ~res.decErr
    /\ res.fields = <<"P", "P">>

\* C27: when header decoding gave a header encoder, the handler calls it
\* once when it produces the response of a request whose backend call was
\* made, also when that call failed, and passes it the first Recv's error
\* (nil when the first Recv returned a message)
C27_HeaderEncoderAlwaysInvoked ==
    (Finished /\ request.EncodeHeader /\ calls = 1)
        => /\ Len(HeaderEncoderCalls) = 1
           /\ HeaderEncoderCalls[1] = recvLog[1].err

\* C28: a response is merged exactly when the request is not raw, no
\* EncodeOutput hook is configured, both eager pulls returned a message,
\* Forbid-Merge is not set and the first message has a repeatable field;
\* a response of one message is not merged
C28_MergeExactlyWhen ==
    /\ Len(recvLog) >= 2
          => (path = "merge"
                <=> /\ ~request.Raw
                    /\ ~h.EncodeOutput
                    /\ recvLog[1].err.nil
                    /\ recvLog[2].err.nil
                    /\ ~request.ForbidMerge
                    /\ \E f \in FieldNames : recvLog[1].msg[f] # Absent)
    /\ path = "merge" => Len(recvLog) >= 2
    /\ (Finished /\ Len(RecvIdx) <= 1) => path # "merge"

C28_Witness ==
    /\ pc = "done"
    /\ path = "merge"
    /\ ~request.Raw /\ ~h.EncodeOutput /\ ~request.ForbidMerge
    /\ Len(RecvIdx) = 2
    /\ recvLog[1].msg["A"] = Absent
    /\ recvLog[1].msg["B"] = 0

\* C29: in a fault response whose error supplies no valid fault code, the
\* faultcode is Client exactly when the status of the response is below
\* 500, and Server exactly when it is 500 or above
C29_FaultCodeFollowsResponseStatus ==
    (/\ pc = "done"
     /\ HasFault(w.body)
     /\ ~ValidFaultCode(SuppliedFaultCode(Last(faultLog))))
        => /\ FaultCodeOf(Last(faultLog)) = "Client" <=> w.status < 500
           /\ FaultCodeOf(Last(faultLog)) = "Server" <=> w.status >= 500

\* the place of an item in the merged response
Stage(it) ==
    CASE it.k = "EnvHeader" -> 1
      [] it.k = "Header" -> 2
      [] it.k = "BodyOpen" -> 3
      [] it.k \in {"OuterOpen", "NL"} -> 4
      [] it.k = "Elem" -> 5
      [] it.k = "OuterClose" -> 6
      [] it.k = "Footer" -> 7
      [] OTHER -> 0

\* C30: a merged response is written in this order: envelope header, the
\* Header block if any, Body open tag, the opening part of the outer
\* element, the content of the spill buffers, the closing tag of the outer
\* element, the Body and Envelope closing tags; nothing of a spill buffer
\* follows the closing tag, and the closing tag is written exactly when
\* the opening part was
C30_MergeWriteOrder ==
    path = "merge" =>
        /\ \A i \in 1..Len(w.body) : Stage(w.body[i]) # 0
        /\ \A i \in 1..(Len(w.body) - 1) :
              Stage(w.body[i]) <= Stage(w.body[i + 1])
        /\ \A k \in {"EnvHeader", "Header", "BodyOpen", "OuterOpen",
                     "OuterClose", "Footer"} : Len(Kinds(w.body, k)) <= 1
        /\ Len(Kinds(w.body, "EnvHeader")) = 1
        /\ Len(Kinds(w.body, "BodyOpen")) = 1
        /\ Len(Kinds(w.body, "Header")) = 1 => request.EncodeHeader
        /\ Len(Kinds(w.body, "OuterClose")) = 1
              => (Len(Kinds(w.body, "OuterOpen")) = 1 /\ Finished)
        /\ Finished
              => /\ Len(Kinds(w.body, "Footer")) = 1
                 /\ Len(Kinds(w.body, "OuterClose")) = Len(Kinds(w.body, "OuterOpen"))

C30_Witness ==
    /\ pc = "done"
    /\ path = "merge"
    /\ Len(Kinds(w.body, "Header")) = 1
    /\ Len(Kinds(w.body, "OuterOpen")) = 1
    /\ Len(Kinds(w.body, "OuterClose")) = 1
    /\ \A f \in FieldNames : ElemsOf(w.body, f) # <<>>
    /\ w.body[Len(w.body)] = Tag("Footer")
    /\ w.body[Len(w.body) - 1] = Tag("OuterClose")

\* C31: in the merge path the outer element with the scalar fields is
\* written once, from the first message; no later message adds scalar
\* fields to the response
C31_OuterElementOnceFromFirst ==
    path = "merge" =>
        /\ Len(Kinds(w.body, "OuterOpen")) <= 1
        /\ \A i \in 1..Len(w.body) :
              w.body[i].k = "OuterOpen" => w.body[i].m = 1
        /\ \A i \in 1..Len(w.body) :
              w.body[i].m > 1 => w.body[i].k = "Elem"
        /\ suffix <=> Len(Kinds(w.body, "OuterOpen")) = 1

C31_Witness ==
    /\ pc = "done"
    /\ path = "merge"
    /\ Len(RecvIdx) = MaxMsgs
    /\ Kinds(w.body, "OuterOpen") = <<Item("OuterOpen", 1, "", 0)>>
    /\ \E i \in 1..Len(w.body) : w.body[i].k = "Elem" /\ w.body[i].m = MaxMsgs

\* something of a backend message is in the response body
MessageWritten(body) ==
    \E i \in 1..Len(body) : body[i].k \in {"Msg", "OuterOpen", "Elem"}

\* C32: once something of a backend message is written into the response
\* Body, no Fault is written into that response: a later Recv error that
\* is not end-of-stream, or an encode error, ends the streaming, and the
\* envelope is closed
C32_NoFaultAfterMessage ==
    MessageWritten(w.body)
        => /\ ~HasFault(w.body)
           /\ Finished => Last(w.body) = Tag("Footer")

C32_Witness ==
    /\ pc = "done"
    /\ path = "nomerge"
    /\ Len(recvLog) = MaxMsgs + 1
    /\ recvLog[MaxMsgs + 1].err = ErrPlain
    /\ Len(MsgIdx(w.body)) >= 2
    /\ ~HasFault(w.body)
    /\ Last(w.body) = Tag("Footer")

C34_NoRecvAfterError ==
    \A i \in 1..(Len(recvLog) - 1) : recvLog[i].err.nil

\* the second eager Recv failed with an error that is not end-of-stream
SecondPullFailed ==
    /\ Len(recvLog) >= 2
    /\ recvLog[1].err.nil
    /\ ~recvLog[2].err.nil
    /\ ~recvLog[2].err.eof

\* C35: when the second eager Recv fails with an error that is not
\* end-of-stream, the response Body holds a Fault for that error and
\* nothing else: the first message is not encoded, and Recv is not called
\* a third time
C35_SecondPullErrorFaultOnly ==
    SecondPullFailed
        => /\ Len(recvLog) = 2
           /\ Finished
           /\ path = "fault"
           /\ ~MessageWritten(w.body)
           /\ Last(faultLog) = recvLog[2].err
           /\ pc = "done"
                 => /\ Kinds(w.body, "Fault") = <<FaultItem(recvLog[2].err)>>
                    /\ \A i \in 1..Len(w.body) :
                          w.body[i].k \in {"EnvHeader", "Header", "BodyOpen",
                                           "Fault", "Footer"}

C35_Witness ==
    /\ pc = "done"
    /\ SecondPullFailed
    /\ recvLog[1].msg["A"] = MaxElems
    /\ recvLog[2].err = ErrCode404
    /\ Kinds(w.body, "Fault") = <<FaultItem(ErrCode404)>>

\* C36: when the drain loop of the merge path runs, every name of
\* fieldOrder has a spill buffer registered in the saver, also a
\* repeatable field that was empty in every message
C36_EveryOrderedFieldHasFile ==
    pc = "drain" => \A k \in 1..Len(fieldOrder) : fieldOrder[k] \in files

\* C37: for a well-formed document the tags FilterEmptyTags emits are
\* balanced: the start tag of an element is emitted exactly when its end
\* tag is, and both are dropped exactly when no start tag and no character
\* data lies between them
C37_FilterKeepsTagsBalanced ==
    (pc = "filtered" /\ ~res.err)
        => \A i \in 1..Len(arg) :
              arg[i].k = "S"
                 => LET e == MatchEnd(arg, i + 1, 0)
                    IN  /\ InSeq(i, res.idx) <=> InSeq(e, res.idx)
                        /\ ~InSeq(i, res.idx)
                              <=> \A t \in (i + 1)..(e - 1) : arg[t].k \notin {"S", "T"}

C37_Witness ==
    /\ pc = "filtered"
    /\ ~res.err
    /\ arg = <<Tok("S", "a"), Tok("S", "b"), Tok("C", ""), Tok("E", "b"), Tok("E", "a")>>
    /\ res.idx = <<1, 3, 5>>

\* C38: the tokens FilterEmptyTags emits are a subsequence of the tokens
\* it read: comments, processing instructions, directives, character data
\* and the tags kept come out in the order they came in
C38_FilterOutputIsSubsequence ==
    pc = "filtered"
        => \A j \in 1..(Len(res.idx) - 1) : res.idx[j] < res.idx[j + 1]

\* C39: the annotation of a request is looked up with the action derived
\* from the SOAPAction header, before the action is taken from the payload
\* root element: a request whose header gives an empty action is not in
\* raw mode (unless an annotation is stored under the empty name), also
\* when the element name it falls back to has a Raw annotation
C39_AnnotationFromHeaderActionOnly ==
    /\ request.Raw => annotation(h, ActionOf(request.SOAPAction)).Raw
    /\ (ActionOf(request.SOAPAction) = <<>> /\ <<>> \notin DOMAIN h.annotations)
          => ~request.Raw

C39_Witness ==
    /\ pc = "done"
    /\ calls = 1
    /\ decErr.nil
    /\ request.SOAPAction = <<>>
    /\ request.Action = <<"RawOp">>
    /\ annotation(h, request.Action).Raw
    /\ ~request.Raw
    /\ MessageWritten(w.body)

\* C40: when FilterEmptyTags fails on the body of a request, the decoder
\* then reads the bytes of that body as they were sent: what the filter
\* had read followed by the rest, nothing lost, added or filtered
C40_FailedFilterKeepsOriginalBody ==
    pc = "pool"
        => \A r \in PoolReqs :
              (res.failed[r] /\ res.read[r] # 0) => res.read[r] = r

====
